---- MODULE Spec2Model ----
(***************************************************************************)
(* Model of the DuckDB dplyr extension (extension/src/dplyr.cpp and        *)
(* extension/src/dplyr_extension.cpp): the input security validator, the   *)
(* transpile invoker, the error formatter and the entry points that route  *)
(* a pipeline fragment to the external engine dplyr_compile.               *)
(*                                                                         *)
(* A text is a sequence of bytes.  A printable ASCII byte is written as    *)
(* the one-character string of its glyph; the other bytes are written      *)
(* "\t", "\n", "\r", "\f" and "<00>", "<1B>", "<60>" (the backquote),      *)
(* "<C3>", "<A9>".  Offsets into a text are 0-based, as in the C++ source. *)
(***************************************************************************)
EXTENDS Integers, Sequences, FiniteSets, TLC

VARIABLES
    input,      \* the text (and how it was built) handed to the operation
    op,         \* the operation that has run on input, "none" before
    out         \* what the operation produced

vars == <<input, op, out>>

(***************************************************************************)
(* Bytes and strings (std::string, <cctype>).                              *)
(***************************************************************************)
Printable ==
    <<" ", "!", "\"", "#", "$", "%", "&", "'", "(", ")", "*", "+", ",", "-", ".", "/",
      "0", "1", "2", "3", "4", "5", "6", "7", "8", "9", ":", ";", "<", "=", ">", "?",
      "@", "A", "B", "C", "D", "E", "F", "G", "H", "I", "J", "K", "L", "M", "N", "O",
      "P", "Q", "R", "S", "T", "U", "V", "W", "X", "Y", "Z", "[", "\\", "]", "^", "_",
      "<60>", "a", "b", "c", "d", "e", "f", "g", "h", "i", "j", "k", "l", "m", "n", "o",
      "p", "q", "r", "s", "t", "u", "v", "w", "x", "y", "z", "{", "|", "}", "~">>

NamedBytes ==
    {<<"<00>", 0>>, <<"\t", 9>>, <<"\n", 10>>, <<"\f", 12>>, <<"\r", 13>>,
     <<"<1B>", 27>>, <<"<A9>", 169>>, <<"<C3>", 195>>}

Bytes == {Printable[i] : i \in DOMAIN Printable} \cup {nb[1] : nb \in NamedBytes}

\* static_cast<unsigned char>(c)
ByteVal ==
    [c \in Bytes |->
        IF \E nb \in NamedBytes : nb[1] = c
        THEN (CHOOSE nb \in NamedBytes : nb[1] = c)[2]
        ELSE 31 + (CHOOSE i \in DOMAIN Printable : Printable[i] = c)]

\* std::isspace in the "C" locale
isspace(c) == ByteVal[c] = 32 \/ (ByteVal[c] >= 9 /\ ByteVal[c] <= 13)

\* std::isalnum in the "C" locale
isalnum(c) ==
    \/ ByteVal[c] >= 48 /\ ByteVal[c] <= 57
    \/ ByteVal[c] >= 65 /\ ByteVal[c] <= 90
    \/ ByteVal[c] >= 97 /\ ByteVal[c] <= 122

\* code[i], i 0-based
At(s, i) == s[i + 1]

\* std::string::substr(pos, n), pos <= size
substr(s, pos, n) ==
    LET m == IF pos + n > Len(s) THEN Len(s) - pos ELSE n
    IN [k \in 1..m |-> s[pos + k]]

\* the string made of n copies of p
Rep(p, n) == [k \in 1..(n * Len(p)) |-> p[((k - 1) % Len(p)) + 1]]

\* whether pat occurs in s at offset i
MatchesAt(s, pat, i) ==
    /\ i + Len(pat) <= Len(s)
    /\ \A k \in 1..Len(pat) : s[i + k] = pat[k]

npos == -1

\* std::string::find(pat, from): the first offset >= from where pat occurs, or npos
find(s, pat, from) ==
    LET hits == {i \in from..(Len(s) - Len(pat)) : MatchesAt(s, pat, i)}
    IN IF hits = {} THEN npos ELSE CHOOSE i \in hits : \A j \in hits : i <= j

\* one decimal digit
Digit(d) == Printable[17 + d]

\* std::to_string of a non-negative integer
RECURSIVE to_string(_)
to_string(n) == IF n < 10 THEN <<Digit(n)>> ELSE to_string(n \div 10) \o <<Digit(n % 10)>>

(***************************************************************************)
(* A for loop over lo..hi whose body may leave it (throw, break, return):  *)
(* the body is applied to each index in increasing order until the state   *)
(* says stop.  The range is split in halves so that the evaluation depth   *)
(* stays logarithmic in the length of the text.                            *)
(***************************************************************************)
RECURSIVE Loop(_, _, _, _)
Loop(Body(_, _), lo, hi, st) ==
    IF st.stop \/ lo > hi THEN st
    ELSE IF lo = hi THEN Body(st, lo)
    ELSE LET mid == (lo + hi) \div 2
         IN Loop(Body, mid + 1, hi, Loop(Body, lo, mid, st))

\* a local variable: v is evaluated once and Body is applied to its value
With(v, Body(_)) == CHOOSE r \in {Body(x) : x \in {v}} : TRUE

(***************************************************************************)
(* DplyrDebugLogger: a log call is recorded as the record of its level,    *)
(* its message and its context.                                            *)
(***************************************************************************)
LogRecord(level, message, context) ==
    [level |-> level, message |-> message, context |-> context]

(***************************************************************************)
(* DplyrInputValidator.  Each check returns [thrown, what, log]: whether   *)
(* it threw a ParserException, the exception's message, and the log calls  *)
(* it made.                                                                *)
(***************************************************************************)
Passed(log) == [thrown |-> FALSE, what |-> <<>>, log |-> log]
Threw(what, log) == [thrown |-> TRUE, what |-> what, log |-> log]

ASCII_CONTROL_LIMIT == 32
ASCII_MAX == 127
ASCII_EXTENDED_START == 128

validate_character_safety(code) ==
    LET Body(st, i) ==
            LET c == ByteVal[At(code, i)]
            IN IF c < ASCII_CONTROL_LIMIT /\ c # 9 /\ c # 10 /\ c # 13
               THEN [stop |-> TRUE,
                     r |-> Threw(<<"D", "P", "L", "Y", "R", " ", "c", "o", "d", "e", " ", "c", "o", "n", "t", "a", "i", "n", "s", " ", "i", "n", "v", "a", "l", "i", "d", " ", "c", "o", "n", "t", "r", "o", "l", " ", "c", "h", "a", "r", "a", "c", "t", "e", "r", " ", "a", "t", " ", "p", "o", "s", "i", "t", "i", "o", "n", " ">>
                                     \o to_string(i),
                                 Append(st.r.log,
                                        LogRecord("ERROR", "Control character detected", i)))]
               ELSE IF /\ c > ASCII_MAX
                       /\ i + 1 < Len(code)
                       /\ ByteVal[At(code, i + 1)] < ASCII_EXTENDED_START
               THEN [stop |-> FALSE,
                     r |-> Passed(Append(st.r.log,
                                         LogRecord("WARNING",
                                                   "Potential encoding issue detected", i)))]
               ELSE st
    IN Loop(Body, 0, Len(code) - 1, [stop |-> FALSE, r |-> Passed(<<>>)]).r

MAX_NESTING_DEPTH == 50

\* a plausible slip: only parentheses counted as opening brackets
IsOpener_ParenOnly(c) == c = "("

IsOpener(c) == c = "(" \/ c = "[" \/ c = "{"
IsCloser(c) == c = ")" \/ c = "]" \/ c = "}"

validate_nesting_depth(code) ==
    LET Body(st, i) ==
            LET c == At(code, i)
            IN IF IsOpener(c)
               THEN IF st.current_depth + 1 > MAX_NESTING_DEPTH
                    THEN [stop |-> TRUE, current_depth |-> st.current_depth + 1,
                          max_depth |-> st.current_depth + 1,
                          r |-> Threw(<<"D", "P", "L", "Y", "R", " ", "c", "o", "d", "e", " ", "h", "a", "s", " ", "e", "x", "c", "e", "s", "s", "i", "v", "e", " ", "n", "e", "s", "t", "i", "n", "g", " ", "d", "e", "p", "t", "h", ":", " ">>
                                          \o to_string(st.current_depth + 1) \o <<" ", ">", " ">>
                                          \o to_string(MAX_NESTING_DEPTH),
                                      <<LogRecord("ERROR", "Excessive nesting depth",
                                                  st.current_depth + 1)>>)]
                    ELSE [st EXCEPT !.current_depth = @ + 1,
                                    !.max_depth = IF st.current_depth + 1 > @
                                                  THEN st.current_depth + 1 ELSE @]
               ELSE IF IsCloser(c)
               THEN [st EXCEPT !.current_depth = @ - 1]
               ELSE st
        done == Loop(Body, 0, Len(code) - 1,
                     [stop |-> FALSE, current_depth |-> 0, max_depth |-> 0,
                      r |-> Passed(<<>>)])
    IN IF done.r.thrown THEN done.r
       ELSE Passed(<<LogRecord("DEBUG", "Nesting depth validation passed", done.max_depth)>>)

MAX_REPETITIONS == 100

\* a plausible slip: ">=" left out of the list
operators_NoGreaterEqual == <<<<"%", ">", "%">>, <<"=", "=">>, <<"!", "=">>, <<"<", "=">>, <<"&", "&">>, <<"|", "|">>>>

operators == <<<<"%", ">", "%">>, <<"=", "=">>, <<"!", "=">>, <<"<", "=">>, <<">", "=">>, <<"&", "&">>, <<"|", "|">>>>

\* The while loop of one operator: pos is where the next code.find(op, pos) starts,
\* so an occurrence counts when it begins at or after pos, and pos moves past it.
CountRepetitions(code, oper) ==
    LET Body(st, i) ==
            IF i >= st.pos /\ MatchesAt(code, oper, i)
            THEN IF st.count + 1 > MAX_REPETITIONS
                 THEN [stop |-> TRUE, pos |-> i + Len(oper), count |-> st.count + 1,
                       r |-> Threw(<<"D", "P", "L", "Y", "R", " ", "c", "o", "d", "e", " ", "h", "a", "s", " ", "e", "x", "c", "e", "s", "s", "i", "v", "e", " ", "r", "e", "p", "e", "t", "i", "t", "i", "o", "n", " ", "o", "f", " ", "o", "p", "e", "r", "a", "t", "o", "r", " ", "'">>
                                       \o oper \o <<"'", ":", " ">> \o to_string(st.count + 1)
                                       \o <<" ", "t", "i", "m", "e", "s">>,
                                   <<LogRecord("ERROR", "Excessive operator repetition",
                                               oper)>>)]
                 ELSE [st EXCEPT !.pos = i + Len(oper), !.count = @ + 1]
            ELSE st
    IN Loop(Body, 0, Len(code) - 1,
            [stop |-> FALSE, pos |-> 0, count |-> 0, r |-> Passed(<<>>)])

validate_repetitive_patterns(code) ==
    LET Body(st, k) ==
            LET c == CountRepetitions(code, operators[k])
            IN [stop |-> c.r.thrown, r |-> c.r]
    IN Loop(Body, 1, Len(operators), [stop |-> FALSE, r |-> Passed(<<>>)]).r

MAX_STRING_LENGTH == 10000

resource_patterns ==
    <<<<"r", "e", "p", "(">>, <<"r", "e", "p", "l", "i", "c", "a", "t", "e", "(">>, <<"e", "x", "p", "a", "n", "d", ".", "g", "r", "i", "d", "(">>, <<"c", "r", "o", "s", "s", "i", "n", "g", "(">>,
      <<"p", "a", "s", "t", "e", "(">>, <<"p", "a", "s", "t", "e", "0", "(">>, <<"s", "p", "r", "i", "n", "t", "f", "(">>, <<"f", "o", "r", "m", "a", "t", "(">>>>

\* the log calls of a list of warning-only patterns, in list order
PatternWarnings(code, patterns, message) ==
    LET Body(st, k) ==
            IF find(code, patterns[k], 0) # npos
            THEN [st EXCEPT !.log = Append(@, LogRecord("WARNING", message, patterns[k]))]
            ELSE st
    IN Loop(Body, 1, Len(patterns), [stop |-> FALSE, log |-> <<>>]).log

validate_resource_patterns(code) ==
    LET warned == PatternWarnings(code, resource_patterns,
                                  "Potential resource-intensive pattern detected")
        Body(st, i) ==
            LET c == At(code, i)
            IN IF ~st.in_string /\ (c = "\"" \/ c = "'")
               THEN [st EXCEPT !.in_string = TRUE, !.string_delimiter = c, !.string_start = i]
               ELSE IF st.in_string /\ c = st.string_delimiter
               THEN IF i > 0 /\ At(code, i - 1) # "\\"
                    THEN IF i - st.string_start > MAX_STRING_LENGTH
                         THEN [st EXCEPT
                                 !.stop = TRUE, !.in_string = FALSE,
                                 !.r = Threw(<<"D", "P", "L", "Y", "R", " ", "c", "o", "d", "e", " ", "c", "o", "n", "t", "a", "i", "n", "s", " ", "e", "x", "c", "e", "s", "s", "i", "v", "e", "l", "y", " ", "l", "o", "n", "g", " ", "s", "t", "r", "i", "n", "g", " ", "l", "i", "t", "e", "r", "a", "l", ":", " ">>
                                                 \o to_string(i - st.string_start)
                                                 \o <<" ", "c", "h", "a", "r", "a", "c", "t", "e", "r", "s">>,
                                             Append(warned,
                                                    LogRecord("ERROR",
                                                              "Excessive string literal length",
                                                              i - st.string_start)))]
                         ELSE [st EXCEPT !.in_string = FALSE]
                    ELSE st
               ELSE st
    IN Loop(Body, 0, Len(code) - 1,
            [stop |-> FALSE, in_string |-> FALSE, string_delimiter |-> "<00>",
             string_start |-> 0, r |-> Passed(warned)]).r

\* a plausible slip: the list without its first entry
injection_patterns_NoSystem ==
    <<<<"s", "h", "e", "l", "l", "(">>, <<"e", "x", "e", "c", "(">>, <<"e", "v", "a", "l", "(">>, <<"p", "a", "r", "s", "e", "(">>,
      <<"s", "o", "u", "r", "c", "e", "(">>, <<"l", "o", "a", "d", "(">>, <<"l", "i", "b", "r", "a", "r", "y", "(">>, <<"r", "e", "q", "u", "i", "r", "e", "(">>,
      <<"S", "y", "s", ".", "s", "e", "t", "e", "n", "v", "(">>, <<"o", "p", "t", "i", "o", "n", "s", "(">>, <<"g", "e", "t", "O", "p", "t", "i", "o", "n", "(">>,
      <<".", "C", "a", "l", "l", "(">>, <<".", "E", "x", "t", "e", "r", "n", "a", "l", "(">>, <<".", "C", "(">>, <<".", "F", "o", "r", "t", "r", "a", "n", "(">>,
      <<"d", "y", "n", ".", "l", "o", "a", "d", "(">>, <<"d", "y", "n", ".", "u", "n", "l", "o", "a", "d", "(">>>>

injection_patterns ==
    <<<<"s", "y", "s", "t", "e", "m", "(">>, <<"s", "h", "e", "l", "l", "(">>, <<"e", "x", "e", "c", "(">>, <<"e", "v", "a", "l", "(">>, <<"p", "a", "r", "s", "e", "(">>,
      <<"s", "o", "u", "r", "c", "e", "(">>, <<"l", "o", "a", "d", "(">>, <<"l", "i", "b", "r", "a", "r", "y", "(">>, <<"r", "e", "q", "u", "i", "r", "e", "(">>,
      <<"S", "y", "s", ".", "s", "e", "t", "e", "n", "v", "(">>, <<"o", "p", "t", "i", "o", "n", "s", "(">>, <<"g", "e", "t", "O", "p", "t", "i", "o", "n", "(">>,
      <<".", "C", "a", "l", "l", "(">>, <<".", "E", "x", "t", "e", "r", "n", "a", "l", "(">>, <<".", "C", "(">>, <<".", "F", "o", "r", "t", "r", "a", "n", "(">>,
      <<"d", "y", "n", ".", "l", "o", "a", "d", "(">>, <<"d", "y", "n", ".", "u", "n", "l", "o", "a", "d", "(">>>>

filesystem_patterns ==
    <<<<"f", "i", "l", "e", "(">>, <<"f", "i", "l", "e", ".", "p", "a", "t", "h", "(">>, <<"d", "i", "r", "(">>, <<"l", "i", "s", "t", ".", "f", "i", "l", "e", "s", "(">>,
      <<"r", "e", "a", "d", ".">>, <<"w", "r", "i", "t", "e", ".">>, <<"s", "a", "v", "e", "(">>, <<"l", "o", "a", "d", "(">>,
      <<"u", "n", "l", "i", "n", "k", "(">>, <<"f", "i", "l", "e", ".", "r", "e", "m", "o", "v", "e", "(">>, <<"f", "i", "l", "e", ".", "c", "r", "e", "a", "t", "e", "(">>>>

\* a plausible slip: a filesystem-access match raised like an injection match
validate_advanced_security_patterns_FilesystemFatal(code) ==
    LET fatal == injection_patterns \o filesystem_patterns
        Body(st, k) ==
            IF find(code, fatal[k], 0) # npos
            THEN [stop |-> TRUE,
                  r |-> Threw(<<"D", "P", "L", "Y", "R", " ", "c", "o", "d", "e", " ", "c", "o", "n", "t", "a", "i", "n", "s", " ", "p", "o", "t", "e", "n", "t", "i", "a", "l", "l", "y", " ", "d", "a", "n", "g", "e", "r", "o", "u", "s", " ", "p", "a", "t", "t", "e", "r", "n", ":", " ">>
                                  \o fatal[k],
                              <<LogRecord("ERROR", "Potential code injection pattern detected",
                                          fatal[k])>>)]
            ELSE st
    IN Loop(Body, 1, Len(fatal), [stop |-> FALSE, r |-> Passed(<<>>)]).r

validate_advanced_security_patterns(code) ==
    LET Body(st, k) ==
            IF find(code, injection_patterns[k], 0) # npos
            THEN [stop |-> TRUE,
                  r |-> Threw(<<"D", "P", "L", "Y", "R", " ", "c", "o", "d", "e", " ", "c", "o", "n", "t", "a", "i", "n", "s", " ", "p", "o", "t", "e", "n", "t", "i", "a", "l", "l", "y", " ", "d", "a", "n", "g", "e", "r", "o", "u", "s", " ", "p", "a", "t", "t", "e", "r", "n", ":", " ">>
                                  \o injection_patterns[k],
                              <<LogRecord("ERROR", "Potential code injection pattern detected",
                                          injection_patterns[k])>>)]
            ELSE st
        injected == Loop(Body, 1, Len(injection_patterns),
                         [stop |-> FALSE, r |-> Passed(<<>>)]).r
    IN IF injected.thrown THEN injected
       ELSE Passed(PatternWarnings(code, filesystem_patterns,
                                   "File system access pattern detected"))

\* a plausible slip: the pattern screen called before the resource scan
SecurityChecks_PatternFirst ==
    <<"validate_character_safety", "validate_nesting_depth", "validate_repetitive_patterns",
      "validate_advanced_security_patterns", "validate_resource_patterns">>

\* The five checks in the order validate_input_security calls them.
SecurityChecks ==
    <<"validate_character_safety", "validate_nesting_depth", "validate_repetitive_patterns",
      "validate_resource_patterns", "validate_advanced_security_patterns">>

RunCheck(name, code) ==
    CASE name = "validate_character_safety" -> validate_character_safety(code)
      [] name = "validate_nesting_depth" -> validate_nesting_depth(code)
      [] name = "validate_repetitive_patterns" -> validate_repetitive_patterns(code)
      [] name = "validate_resource_patterns" -> validate_resource_patterns(code)
      [] name = "validate_advanced_security_patterns" ->
            validate_advanced_security_patterns(code)

\* validate_input_security: [thrown, what, log, ran], ran the checks that were called.
\* A check that throws ends the function: the later calls are not made.
validate_input_security(code) ==
    LET Body(st, k) ==
            LET r == RunCheck(SecurityChecks[k], code)
            IN [stop |-> r.thrown, thrown |-> r.thrown, what |-> r.what,
                log |-> st.log \o r.log, ran |-> Append(st.ran, SecurityChecks[k])]
        done == Loop(Body, 1, Len(SecurityChecks),
                     [stop |-> FALSE, thrown |-> FALSE, what |-> <<>>, log |-> <<>>,
                      ran |-> <<>>])
    IN [thrown |-> done.thrown, what |-> done.what, log |-> done.log, ran |-> done.ran]

(***************************************************************************)
(* Bounds of the inputs.                                                   *)
(***************************************************************************)
Radius == 2           \* counts within Radius of a limit are tried
MaxPreClosers == 2    \* closing brackets put before a run of opening brackets
MaxPieces == 3        \* pieces concatenated into one fragment

Near(limit) == (limit - Radius)..(limit + Radius)

\* the five checks in the order the specification gives them (section 4.3)
ClaimedOrder ==
    <<"validate_character_safety", "validate_nesting_depth", "validate_repetitive_patterns",
      "validate_resource_patterns", "validate_advanced_security_patterns">>

\* the operators whose repetition is limited (section 4.3, check 3)
ClaimedOperators == <<<<"%", ">", "%">>, <<"=", "=">>, <<"!", "=">>, <<"<", "=">>, <<">", "=">>, <<"&", "&">>, <<"|", "|">>>>

\* the concatenation of a sequence of texts
Concat(texts) ==
    LET Body(st, k) == [st EXCEPT !.text = @ \o texts[k]]
    IN Loop(Body, 1, Len(texts), [stop |-> FALSE, text |-> <<>>]).text

(***************************************************************************)
(* Inputs of the nesting check: pre closing brackets, a filler, n opening  *)
(* brackets of the kinds in turn, post closing brackets.                   *)
(***************************************************************************)
OpenerKinds == <<<<"(">>, <<"[", "{">>, <<"(", "[", "{">>>>
Fillers == <<<<>>, <<" ", "x", " ">>>>

NestingText(pre, filler, kinds, n, post) ==
    Rep(<<")">>, pre) \o filler \o [k \in 1..n |-> kinds[((k - 1) % Len(kinds)) + 1]]
        \o Rep(<<"]">>, post)

NestingInputs ==
    {[family |-> "nesting", pre |-> pre, n |-> n, post |-> post,
      text |-> NestingText(pre, Fillers[f], OpenerKinds[kd], n, post)] :
        pre \in 0..MaxPreClosers, n \in Near(MAX_NESTING_DEPTH), post \in 0..1,
        f \in DOMAIN Fillers, kd \in DOMAIN OpenerKinds}

(***************************************************************************)
(* Inputs of the repetition check: n occurrences of one operator, then n2  *)
(* occurrences of the next operator of the list, each followed by sep.     *)
(***************************************************************************)
NextOperator(o) == (o % Len(ClaimedOperators)) + 1

RepetitionInputs ==
    {[family |-> "repetition", oper |-> o, n |-> n, oper2 |-> NextOperator(o), n2 |-> n2,
      text |-> Rep(ClaimedOperators[o] \o Fillers[f], n) \o <<" ">>
                   \o Rep(ClaimedOperators[NextOperator(o)] \o Fillers[f], n2)] :
        o \in DOMAIN ClaimedOperators, n \in Near(MAX_REPETITIONS),
        n2 \in {0, MAX_REPETITIONS, MAX_REPETITIONS + 1}, f \in DOMAIN Fillers}

(***************************************************************************)
(* Inputs of validate_input_security.  A fragment built to fail the checks *)
(* named in fails, with or without the three warning-only observations,    *)
(* its parts in either order; and the fragments made of up to MaxPieces    *)
(* pieces of a small vocabulary.                                           *)
(***************************************************************************)
FailingPart(check) ==
    CASE check = "validate_character_safety" -> <<"a">> \o <<"<1B>">> \o <<"b">>
      [] check = "validate_nesting_depth" -> Rep(<<"(">>, MAX_NESTING_DEPTH + 1)
      [] check = "validate_repetitive_patterns" -> Rep(<<"%", ">", "%">>, MAX_REPETITIONS + 1)
      [] check = "validate_resource_patterns" ->
            <<"'">> \o Rep(<<"a">>, MAX_STRING_LENGTH) \o <<"'">>
      [] check = "validate_advanced_security_patterns" -> <<"s", "y", "s", "t", "e", "m", "(", "x", ")">>

WarningParts == <<<<"<C3>", "x">>, <<"r", "e", "p", "(", "1", ")">>, <<"f", "i", "l", "e", "(", "1", ")">>>>

FailingText(fails, warns, forward) ==
    LET parts == [k \in 1..Len(ClaimedOrder) |->
                    IF ClaimedOrder[IF forward THEN k ELSE Len(ClaimedOrder) + 1 - k] \in fails
                    THEN FailingPart(ClaimedOrder[IF forward THEN k
                                                    ELSE Len(ClaimedOrder) + 1 - k]) \o <<" ">>
                    ELSE <<>>]
    IN <<"t", " ", "%", ">", "%", " ", "f", "(", "x", ")", " ">> \o (IF warns THEN Concat(WarningParts) ELSE <<>>) \o Concat(parts)

FailingInputs ==
    {[family |-> "failing", fails |-> fails, warns |-> warns,
      text |-> FailingText(fails, warns, forward)] :
        fails \in SUBSET {ClaimedOrder[k] : k \in DOMAIN ClaimedOrder},
        warns \in BOOLEAN, forward \in BOOLEAN}

Pieces ==
    <<<<"t", " ", "%", ">", "%", " ", "f", "(", "x", ")">>, <<"s", "y", "s", "t", "e", "m", "(">>, <<"s", "y", "s">>, <<"t", "e", "m", "(">>, <<"S", "y", "s", "t", "e", "m", "(">>, <<" ">>, <<"x", " ", "=", "=", " ", "'", "a", "'">>>>

PieceInputs ==
    {[family |-> "pieces", fails |-> {}, warns |-> FALSE,
      text |-> Concat([k \in 1..Len(ps) |-> Pieces[ps[k]]])] :
        ps \in UNION {[1..m -> DOMAIN Pieces] : m \in 0..MaxPieces}}

\* The two warning lists as the specification gives them.
ClaimedFilesystem ==
    {<<"f", "i", "l", "e", "(">>, <<"f", "i", "l", "e", ".", "p", "a", "t", "h", "(">>, <<"d", "i", "r", "(">>, <<"l", "i", "s", "t", ".", "f", "i", "l", "e", "s", "(">>, <<"r", "e", "a", "d", ".">>, <<"w", "r", "i", "t", "e", ".">>,
     <<"s", "a", "v", "e", "(">>, <<"l", "o", "a", "d", "(">>, <<"u", "n", "l", "i", "n", "k", "(">>, <<"f", "i", "l", "e", ".", "r", "e", "m", "o", "v", "e", "(">>, <<"f", "i", "l", "e", ".", "c", "r", "e", "a", "t", "e", "(">>}

ClaimedResource ==
    {<<"r", "e", "p", "(">>, <<"r", "e", "p", "l", "i", "c", "a", "t", "e", "(">>, <<"e", "x", "p", "a", "n", "d", ".", "g", "r", "i", "d", "(">>, <<"c", "r", "o", "s", "s", "i", "n", "g", "(">>,
     <<"p", "a", "s", "t", "e", "(">>, <<"p", "a", "s", "t", "e", "0", "(">>, <<"s", "p", "r", "i", "n", "t", "f", "(">>, <<"f", "o", "r", "m", "a", "t", "(">>}

\* Fragments that call one listed name, or one name of each list, and hold
\* nothing else the validator looks for.
PatternInputs ==
    {[family |-> "patterns", fails |-> {}, warns |-> TRUE, patterns |-> {p},
      text |-> <<"t", " ", "%", ">", "%", " ", "m", "u", "t", "a", "t", "e", "(", "y", " ", "=", " ">> \o p \o <<"x", ")", ")">>] :
        p \in ClaimedFilesystem \cup ClaimedResource}
    \cup {[family |-> "patterns", fails |-> {}, warns |-> TRUE, patterns |-> {p, q},
           text |-> <<"t", " ", "%", ">", "%", " ", "g", "(">> \o q \o <<"1", ")", ",", " ">> \o p \o <<"2", ")", ")">>] :
             p \in ClaimedFilesystem, q \in ClaimedResource}

(***************************************************************************)
(* The validator applied to an input.                                      *)
(***************************************************************************)
InitNesting == input \in NestingInputs /\ op = "none" /\ out = <<>>
InitRepetition == input \in RepetitionInputs /\ op = "none" /\ out = <<>>
InitSecurity ==
    input \in FailingInputs \cup PieceInputs \cup PatternInputs /\ op = "none" /\ out = <<>>

ValidateNestingDepth ==
    /\ op = "none"
    /\ op' = "validate_nesting_depth"
    /\ out' = validate_nesting_depth(input.text)
    /\ UNCHANGED input

ValidateRepetitivePatterns ==
    /\ op = "none"
    /\ op' = "validate_repetitive_patterns"
    /\ out' = validate_repetitive_patterns(input.text)
    /\ UNCHANGED input

ValidateInputSecurity ==
    /\ op = "none"
    /\ op' = "validate_input_security"
    /\ out' = validate_input_security(input.text)
    /\ UNCHANGED input

SpecNesting == InitNesting /\ [][ValidateNestingDepth]_vars
SpecRepetition == InitRepetition /\ [][ValidateRepetitivePatterns]_vars
SpecSecurity == InitSecurity /\ [][ValidateInputSecurity]_vars

(***************************************************************************)
(* Text predicates used to state the properties; none is used by the       *)
(* model of the code.                                                      *)
(***************************************************************************)
StartsWith(s, prefix) ==
    Len(prefix) <= Len(s) /\ \A k \in 1..Len(prefix) : s[k] = prefix[k]

Contains(s, pat) ==
    \E i \in 1..(Len(s) - Len(pat) + 1) : \A k \in 1..Len(pat) : s[i + k - 1] = pat[k]

\* openers minus closers among the first i bytes
RunningDepth(s, i) ==
    Cardinality({j \in 1..i : s[j] \in {"(", "[", "{"}})
        - Cardinality({j \in 1..i : s[j] \in {")", "]", "}"}})

\* the opening brackets left unmatched when each closer matches the nearest
\* unmatched opener before it (bracket kinds ignored)
UnmatchedOpeners(s) ==
    LET Body(st, i) ==
            IF s[i] \in {"(", "[", "{"} THEN [st EXCEPT !.open = @ + 1]
            ELSE IF s[i] \in {")", "]", "}"} /\ st.open > 0 THEN [st EXCEPT !.open = @ - 1]
            ELSE st
    IN Loop(Body, 1, Len(s), [stop |-> FALSE, open |-> 0]).open

\* the message of the failure of each check starts with
FailurePrefix(check) ==
    CASE check = "validate_character_safety" ->
            <<"D", "P", "L", "Y", "R", " ", "c", "o", "d", "e", " ", "c", "o", "n", "t", "a", "i", "n", "s", " ", "i", "n", "v", "a", "l", "i", "d", " ", "c", "o", "n", "t", "r", "o", "l", " ", "c", "h", "a", "r", "a", "c", "t", "e", "r", " ", "a", "t", " ", "p", "o", "s", "i", "t", "i", "o", "n", " ">>
      [] check = "validate_nesting_depth" -> <<"D", "P", "L", "Y", "R", " ", "c", "o", "d", "e", " ", "h", "a", "s", " ", "e", "x", "c", "e", "s", "s", "i", "v", "e", " ", "n", "e", "s", "t", "i", "n", "g", " ", "d", "e", "p", "t", "h", ":", " ">>
      [] check = "validate_repetitive_patterns" ->
            <<"D", "P", "L", "Y", "R", " ", "c", "o", "d", "e", " ", "h", "a", "s", " ", "e", "x", "c", "e", "s", "s", "i", "v", "e", " ", "r", "e", "p", "e", "t", "i", "t", "i", "o", "n", " ", "o", "f", " ", "o", "p", "e", "r", "a", "t", "o", "r", " ", "'">>
      [] check = "validate_resource_patterns" ->
            <<"D", "P", "L", "Y", "R", " ", "c", "o", "d", "e", " ", "c", "o", "n", "t", "a", "i", "n", "s", " ", "e", "x", "c", "e", "s", "s", "i", "v", "e", "l", "y", " ", "l", "o", "n", "g", " ", "s", "t", "r", "i", "n", "g", " ", "l", "i", "t", "e", "r", "a", "l", ":", " ">>
      [] check = "validate_advanced_security_patterns" ->
            <<"D", "P", "L", "Y", "R", " ", "c", "o", "d", "e", " ", "c", "o", "n", "t", "a", "i", "n", "s", " ", "p", "o", "t", "e", "n", "t", "i", "a", "l", "l", "y", " ", "d", "a", "n", "g", "e", "r", "o", "u", "s", " ", "p", "a", "t", "t", "e", "r", "n", ":", " ">>

\* the position in ClaimedOrder of the first check of fails, 0 if none
FirstFailing(fails) ==
    IF \E k \in DOMAIN ClaimedOrder : ClaimedOrder[k] \in fails
    THEN CHOOSE k \in DOMAIN ClaimedOrder :
            /\ ClaimedOrder[k] \in fails
            /\ \A j \in 1..(k - 1) : ClaimedOrder[j] \notin fails
    ELSE 0

(***************************************************************************)
(* C2.  validate_input_security runs the checks in the order character     *)
(* safety, nesting depth, repetition, resource/string-literal scan,        *)
(* advanced pattern screen: for a fragment built to fail a set of checks,  *)
(* the checks run are exactly those up to the first failing one, the       *)
(* verdict is that check's failure, and with no failing check all five run *)
(* and the fragment is accepted; the warning-only observations (encoding   *)
(* anomaly, resource pattern, filesystem pattern) change none of this and  *)
(* are logged by every check that ran.                                     *)
(***************************************************************************)
C2_FixedOrderFailFast ==
    (op = "validate_input_security" /\ input.family = "failing") =>
        LET k == FirstFailing(input.fails)
        IN /\ k = 0 => /\ ~out.thrown
                       /\ out.ran = ClaimedOrder
           /\ k > 0 => /\ out.thrown
                       /\ out.ran = SubSeq(ClaimedOrder, 1, k)
                       /\ StartsWith(out.what, FailurePrefix(ClaimedOrder[k]))
           /\ input.warns =>
                /\ \E e \in DOMAIN out.log :
                        out.log[e].message = "Potential encoding issue detected"
                /\ Len(out.ran) >= 4 =>
                        \E e \in DOMAIN out.log :
                            out.log[e].message = "Potential resource-intensive pattern detected"
                /\ (Len(out.ran) = 5 /\ ~out.thrown) =>
                        \E e \in DOMAIN out.log :
                            out.log[e].message = "File system access pattern detected"

\* a fragment failing the nesting, the string-literal and the pattern check, with
\* all three observations made, is rejected by the nesting check
C2_Witness ==
    /\ op = "validate_input_security"
    /\ input.family = "failing"
    /\ input.warns
    /\ input.fails = {"validate_nesting_depth", "validate_resource_patterns",
                      "validate_advanced_security_patterns"}
    /\ out.thrown
    /\ out.ran = <<"validate_character_safety", "validate_nesting_depth">>

(***************************************************************************)
(* C3.  Every fragment that contains the substring "system(" is rejected   *)
(* by validate_input_security.                                             *)
(***************************************************************************)
C3_SystemCallRejected ==
    (op = "validate_input_security" /\ Contains(input.text, <<"s", "y", "s", "t", "e", "m", "(">>)) => out.thrown

\* "system(" arising across two pieces, in a fragment no other check rejects
C3_Witness ==
    /\ op = "validate_input_security"
    /\ input.text = <<"t", " ", "%", ">", "%", " ", "f", "(", "x", ")", "s", "y", "s", "t", "e", "m", "(">>
    /\ out.thrown
    /\ out.what = <<"D", "P", "L", "Y", "R", " ", "c", "o", "d", "e", " ", "c", "o", "n", "t", "a", "i", "n", "s", " ", "p", "o", "t", "e", "n", "t", "i", "a", "l", "l", "y", " ", "d", "a", "n", "g", "e", "r", "o", "u", "s", " ", "p", "a", "t", "t", "e", "r", "n", ":", " ", "s", "y", "s", "t", "e", "m", "(">>

(***************************************************************************)
(* C4 as stated.  The nesting check rejects a fragment that has 51 or more *)
(* unmatched opening brackets and accepts one that has exactly 50,         *)
(* whatever closers precede them.                                          *)
(***************************************************************************)
C4_UnmatchedOpeners ==
    op = "validate_nesting_depth" =>
        /\ UnmatchedOpeners(input.text) >= MAX_NESTING_DEPTH + 1 => out.thrown
        /\ UnmatchedOpeners(input.text) = MAX_NESTING_DEPTH => ~out.thrown

(***************************************************************************)
(* C4 amended.  The nesting check rejects a fragment exactly when the      *)
(* running count of opening minus closing brackets, which starts at 0 and  *)
(* may go negative, exceeds 50 after some byte; so k closers followed by n *)
(* openers are rejected exactly when n - k > 50 (51 openers with no closer *)
(* before them are rejected, 50 are accepted), whatever closers follow.    *)
(***************************************************************************)
C4_RunningDepth ==
    op = "validate_nesting_depth" =>
        /\ out.thrown <=>
              \E i \in 1..Len(input.text) : RunningDepth(input.text, i) > MAX_NESTING_DEPTH
        /\ out.thrown <=> input.n - input.pre > MAX_NESTING_DEPTH

\* one closer ahead of 52 openers: rejected at the 52nd
C4_Witness ==
    /\ op = "validate_nesting_depth"
    /\ input.pre = 1
    /\ input.n = MAX_NESTING_DEPTH + 2
    /\ out.thrown
    /\ out.what = <<"D", "P", "L", "Y", "R", " ", "c", "o", "d", "e", " ", "h", "a", "s", " ", "e", "x", "c", "e", "s", "s", "i", "v", "e", " ", "n", "e", "s", "t", "i", "n", "g", " ", "d", "e", "p", "t", "h", ":", " ", "5", "1", " ", ">", " ", "5", "0">>

(***************************************************************************)
(* C5.  The repetition check counts each operator of the fixed list on its *)
(* own: a fragment is accepted when no operator occurs more than 100 times *)
(* (100 occurrences of one operator and 100 of another are accepted) and   *)
(* rejected when some operator occurs 101 times or more, and the message   *)
(* names the first operator of the list that does, at its 101st            *)
(* occurrence.                                                             *)
(***************************************************************************)
C5_RepetitionLimit ==
    op = "validate_repetitive_patterns" =>
        LET over == {o \in {input.oper, input.oper2} :
                        (IF o = input.oper THEN input.n ELSE input.n2) > MAX_REPETITIONS}
        IN /\ out.thrown <=> over # {}
           /\ out.thrown =>
                LET first == CHOOSE o \in over : \A p \in over : o <= p
                IN out.what = <<"D", "P", "L", "Y", "R", " ", "c", "o", "d", "e", " ", "h", "a", "s", " ", "e", "x", "c", "e", "s", "s", "i", "v", "e", " ", "r", "e", "p", "e", "t", "i", "t", "i", "o", "n", " ", "o", "f", " ", "o", "p", "e", "r", "a", "t", "o", "r", " ", "'">>
                                  \o ClaimedOperators[first] \o <<"'", ":", " ", "1", "0", "1", " ", "t", "i", "m", "e", "s">>

\* 101 occurrences of "==" next to 100 of "!=": rejected, naming "=="
C5_Witness ==
    /\ op = "validate_repetitive_patterns"
    /\ input.oper = 2
    /\ input.n = MAX_REPETITIONS + 1
    /\ input.n2 = MAX_REPETITIONS
    /\ out.thrown
    /\ Contains(out.what, <<"'", "=", "=", "'">>)

\* 100 occurrences of the chain operator and 100 of "==": accepted
C5_WitnessAccepted ==
    /\ op = "validate_repetitive_patterns"
    /\ input.oper = 1
    /\ input.n = MAX_REPETITIONS
    /\ input.n2 = MAX_REPETITIONS
    /\ ~out.thrown

(***************************************************************************)
(* The C API of the engine (dplyr_extension.h).  Its implementation is not *)
(* part of the sources: the error-code utilities follow the error          *)
(* taxonomy of the specification (section 7) and the header.               *)
(***************************************************************************)
DPLYR_SUCCESS == 0
DPLYR_ERROR_NULL_POINTER == -1
DPLYR_ERROR_INVALID_UTF8 == -2
DPLYR_ERROR_INPUT_TOO_LARGE == -3
DPLYR_ERROR_TIMEOUT == -4
DPLYR_ERROR_SYNTAX == -5
DPLYR_ERROR_UNSUPPORTED == -6
DPLYR_ERROR_INTERNAL == -7
DPLYR_ERROR_PANIC == -8

\* a null char*: a value that is no text (its one element is not a byte)
NULL == <<"<null>">>

dplyr_is_success(error_code) == error_code = DPLYR_SUCCESS

dplyr_is_recoverable_error(error_code) ==
    error_code \in {DPLYR_ERROR_NULL_POINTER, DPLYR_ERROR_INVALID_UTF8,
                    DPLYR_ERROR_INPUT_TOO_LARGE, DPLYR_ERROR_TIMEOUT,
                    DPLYR_ERROR_SYNTAX, DPLYR_ERROR_UNSUPPORTED}

dplyr_error_code_name(error_code) ==
    CASE error_code = DPLYR_SUCCESS -> <<"S", "U", "C", "C", "E", "S", "S">>
      [] error_code = DPLYR_ERROR_NULL_POINTER -> <<"E", "-", "N", "U", "L", "L", "-", "P", "O", "I", "N", "T", "E", "R">>
      [] error_code = DPLYR_ERROR_INVALID_UTF8 -> <<"E", "-", "I", "N", "V", "A", "L", "I", "D", "-", "U", "T", "F", "8">>
      [] error_code = DPLYR_ERROR_INPUT_TOO_LARGE -> <<"E", "-", "I", "N", "P", "U", "T", "-", "T", "O", "O", "-", "L", "A", "R", "G", "E">>
      [] error_code = DPLYR_ERROR_TIMEOUT -> <<"E", "-", "T", "I", "M", "E", "O", "U", "T">>
      [] error_code = DPLYR_ERROR_SYNTAX -> <<"E", "-", "S", "Y", "N", "T", "A", "X">>
      [] error_code = DPLYR_ERROR_UNSUPPORTED -> <<"E", "-", "U", "N", "S", "U", "P", "P", "O", "R", "T", "E", "D">>
      [] error_code = DPLYR_ERROR_INTERNAL -> <<"E", "-", "I", "N", "T", "E", "R", "N", "A", "L">>
      [] error_code = DPLYR_ERROR_PANIC -> <<"E", "-", "P", "A", "N", "I", "C">>
      [] OTHER -> <<"E", "-", "U", "N", "K", "N", "O", "W", "N">>

\* std::to_string of an int
int_to_string(n) == IF n < 0 THEN <<"-">> \o to_string(0 - n) ELSE to_string(n)

(***************************************************************************)
(* DplyrErrorHandler.  An exception is [type, what].                       *)
(***************************************************************************)
Exception(type, what) == [type |-> type, what |-> what]

MAX_DISPLAY_LENGTH == 200

\* a plausible slip: the room for the ellipsis not taken off the prefix
truncate_code_for_display_NoRoom(code) ==
    IF Len(code) <= MAX_DISPLAY_LENGTH
    THEN <<"'">> \o code \o <<"'">>
    ELSE <<"'">> \o substr(code, 0, MAX_DISPLAY_LENGTH) \o <<".", ".", ".", "'">>

truncate_code_for_display(code) ==
    IF Len(code) <= MAX_DISPLAY_LENGTH
    THEN <<"'">> \o code \o <<"'">>
    ELSE <<"'">> \o substr(code, 0, MAX_DISPLAY_LENGTH - 3) \o <<".", ".", ".", "'">>

get_error_suggestions(error_code, config) ==
    (CASE error_code = DPLYR_ERROR_SYNTAX ->
            <<"\n", " ", " ", "-", " ", "C", "h", "e", "c", "k", " ", "d", "p", "l", "y", "r", " ", "f", "u", "n", "c", "t", "i", "o", "n", " ", "s", "y", "n", "t", "a", "x", " ", "(", "s", "e", "l", "e", "c", "t", ",", " ", "f", "i", "l", "t", "e", "r", ",", " ", "m", "u", "t", "a", "t", "e", ",", " ", "e", "t", "c", ".", ")">>
                \o <<"\n", " ", " ", "-", " ", "E", "n", "s", "u", "r", "e", " ", "p", "r", "o", "p", "e", "r", " ", "u", "s", "e", " ", "o", "f", " ", "p", "i", "p", "e", " ", "o", "p", "e", "r", "a", "t", "o", "r", " ", "(", "%", ">", "%", ")">>
                \o <<"\n", " ", " ", "-", " ", "V", "e", "r", "i", "f", "y", " ", "c", "o", "l", "u", "m", "n", " ", "n", "a", "m", "e", "s", " ", "a", "n", "d", " ", "f", "u", "n", "c", "t", "i", "o", "n", " ", "a", "r", "g", "u", "m", "e", "n", "t", "s">>
                \o <<"\n", " ", " ", "-", " ", "C", "h", "e", "c", "k", " ", "f", "o", "r", " ", "b", "a", "l", "a", "n", "c", "e", "d", " ", "p", "a", "r", "e", "n", "t", "h", "e", "s", "e", "s", " ", "a", "n", "d", " ", "q", "u", "o", "t", "e", "s">>
       [] error_code = DPLYR_ERROR_UNSUPPORTED ->
            <<"\n", " ", " ", "-", " ", "U", "s", "e", " ", "s", "u", "p", "p", "o", "r", "t", "e", "d", " ", "d", "p", "l", "y", "r", " ", "f", "u", "n", "c", "t", "i", "o", "n", "s", ":", " ", "s", "e", "l", "e", "c", "t", ",", " ", "f", "i", "l", "t", "e", "r", ",", " ", "m", "u", "t", "a", "t", "e", ",", " ", "a", "r", "r", "a", "n", "g", "e", ",", " ", "s", "u", "m", "m", "a", "r", "i", "s", "e", ",", " ", "g", "r", "o", "u", "p", "_", "b", "y">>
                \o <<"\n", " ", " ", "-", " ", "C", "h", "e", "c", "k", " ", "i", "f", " ", "t", "h", "e", " ", "o", "p", "e", "r", "a", "t", "i", "o", "n", " ", "i", "s", " ", "s", "u", "p", "p", "o", "r", "t", "e", "d", " ", "i", "n", " ", "D", "u", "c", "k", "D", "B", " ", "d", "i", "a", "l", "e", "c", "t">>
                \o <<"\n", " ", " ", "-", " ", "C", "o", "n", "s", "i", "d", "e", "r", " ", "b", "r", "e", "a", "k", "i", "n", "g", " ", "c", "o", "m", "p", "l", "e", "x", " ", "o", "p", "e", "r", "a", "t", "i", "o", "n", "s", " ", "i", "n", "t", "o", " ", "s", "i", "m", "p", "l", "e", "r", " ", "s", "t", "e", "p", "s">>
       [] error_code = DPLYR_ERROR_INPUT_TOO_LARGE ->
            <<"\n", " ", " ", "-", " ", "R", "e", "d", "u", "c", "e", " ", "t", "h", "e", " ", "l", "e", "n", "g", "t", "h", " ", "o", "f", " ", "y", "o", "u", "r", " ", "d", "p", "l", "y", "r", " ", "c", "o", "d", "e">>
                \o <<"\n", " ", " ", "-", " ", "B", "r", "e", "a", "k", " ", "c", "o", "m", "p", "l", "e", "x", " ", "p", "i", "p", "e", "l", "i", "n", "e", "s", " ", "i", "n", "t", "o", " ", "m", "u", "l", "t", "i", "p", "l", "e", " ", "s", "t", "e", "p", "s">>
                \o <<"\n", " ", " ", "-", " ", "C", "u", "r", "r", "e", "n", "t", " ", "l", "i", "m", "i", "t", ":", " ">> \o to_string(config.max_input_length)
                \o <<" ", "c", "h", "a", "r", "a", "c", "t", "e", "r", "s">>
       [] error_code = DPLYR_ERROR_TIMEOUT ->
            <<"\n", " ", " ", "-", " ", "S", "i", "m", "p", "l", "i", "f", "y", " ", "y", "o", "u", "r", " ", "d", "p", "l", "y", "r", " ", "p", "i", "p", "e", "l", "i", "n", "e">>
                \o <<"\n", " ", " ", "-", " ", "A", "v", "o", "i", "d", " ", "d", "e", "e", "p", "l", "y", " ", "n", "e", "s", "t", "e", "d", " ", "o", "p", "e", "r", "a", "t", "i", "o", "n", "s">>
                \o <<"\n", " ", " ", "-", " ", "C", "u", "r", "r", "e", "n", "t", " ", "t", "i", "m", "e", "o", "u", "t", ":", " ">> \o to_string(config.max_processing_time_ms)
                \o <<"m", "s">>
       [] OTHER ->
            <<"\n", " ", " ", "-", " ", "C", "h", "e", "c", "k", " ", "t", "h", "e", " ", "d", "p", "l", "y", "r", " ", "d", "o", "c", "u", "m", "e", "n", "t", "a", "t", "i", "o", "n", " ", "f", "o", "r", " ", "c", "o", "r", "r", "e", "c", "t", " ", "s", "y", "n", "t", "a", "x">>
                \o <<"\n", " ", " ", "-", " ", "T", "r", "y", " ", "a", " ", "s", "i", "m", "p", "l", "e", "r", " ", "v", "e", "r", "s", "i", "o", "n", " ", "o", "f", " ", "y", "o", "u", "r", " ", "p", "i", "p", "e", "l", "i", "n", "e", " ", "f", "i", "r", "s", "t">>)
        \o <<"\n", " ", " ", "-", " ", "E", "n", "a", "b", "l", "e", " ", "d", "e", "b", "u", "g", " ", "m", "o", "d", "e", " ", "w", "i", "t", "h", " ", "D", "P", "L", "Y", "R", "_", "D", "E", "B", "U", "G", "=", "1", " ", "f", "o", "r", " ", "m", "o", "r", "e", " ", "d", "e", "t", "a", "i", "l", "s">>

is_recoverable_error(error_code) == dplyr_is_recoverable_error(error_code)

format_error_message(error_code, error_message, dplyr_code, config) ==
    LET error_name == dplyr_error_code_name(error_code)
        named == IF error_name # <<>>
                 THEN <<"[">> \o error_name \o <<"]", " ">> \o error_message
                 ELSE error_message
        context == IF error_code = DPLYR_ERROR_SYNTAX \/ error_code = DPLYR_ERROR_UNSUPPORTED
                   THEN named \o <<"\n", "\n", "I", "n", "p", "u", "t", " ", "c", "o", "d", "e", ":", " ">> \o truncate_code_for_display(dplyr_code)
                              \o <<"\n", "\n", "S", "u", "g", "g", "e", "s", "t", "i", "o", "n", "s", ":">>
                              \o get_error_suggestions(error_code, config)
                   ELSE named
    IN IF is_recoverable_error(error_code)
       THEN context \o <<"\n", "\n", "T", "h", "i", "s", " ", "e", "r", "r", "o", "r", " ", "i", "s", " ", "r", "e", "c", "o", "v", "e", "r", "a", "b", "l", "e", ".", " ", "Y", "o", "u", " ", "c", "a", "n", " ", "t", "r", "y", " ", "a", "g", "a", "i", "n", " ", "w", "i", "t", "h", " ", "c", "o", "r", "r", "e", "c", "t", "e", "d", " ", "i", "n", "p", "u", "t", ".">>
       ELSE context \o <<"\n", "\n", "T", "h", "i", "s", " ", "i", "s", " ", "a", " ", "f", "a", "t", "a", "l", " ", "e", "r", "r", "o", "r", ".", " ", "P", "l", "e", "a", "s", "e", " ", "c", "h", "e", "c", "k", " ", "y", "o", "u", "r", " ", "s", "y", "s", "t", "e", "m", " ", "c", "o", "n", "f", "i", "g", "u", "r", "a", "t", "i", "o", "n", ".">>

\* the exception thrown by the switch of handle_error
SwitchException(error_code, formatted_message) ==
    CASE error_code \in {DPLYR_ERROR_NULL_POINTER, DPLYR_ERROR_INVALID_UTF8} ->
            Exception("InvalidInputException", formatted_message)
      [] error_code \in {DPLYR_ERROR_INPUT_TOO_LARGE, DPLYR_ERROR_TIMEOUT} ->
            Exception("InvalidInputException",
                      <<"R", "e", "s", "o", "u", "r", "c", "e", " ", "l", "i", "m", "i", "t", " ", "e", "x", "c", "e", "e", "d", "e", "d", ":", " ">> \o formatted_message)
      [] error_code = DPLYR_ERROR_SYNTAX ->
            Exception("ParserException", <<"D", "P", "L", "Y", "R", " ", "s", "y", "n", "t", "a", "x", " ", "e", "r", "r", "o", "r", ":", " ">> \o formatted_message)
      [] error_code = DPLYR_ERROR_UNSUPPORTED ->
            Exception("NotImplementedException",
                      <<"D", "P", "L", "Y", "R", " ", "u", "n", "s", "u", "p", "p", "o", "r", "t", "e", "d", " ", "o", "p", "e", "r", "a", "t", "i", "o", "n", ":", " ">> \o formatted_message)
      [] error_code \in {DPLYR_ERROR_INTERNAL, DPLYR_ERROR_PANIC} ->
            Exception("InternalException", <<"D", "P", "L", "Y", "R", " ", "i", "n", "t", "e", "r", "n", "a", "l", " ", "e", "r", "r", "o", "r", ":", " ">> \o formatted_message)
      [] OTHER ->
            Exception("InternalException",
                      <<"D", "P", "L", "Y", "R", " ", "u", "n", "k", "n", "o", "w", "n", " ", "e", "r", "r", "o", "r", " ", "(", "c", "o", "d", "e", " ">> \o int_to_string(error_code) \o <<")", ":", " ">>
                          \o formatted_message)

\* handle_error: the switch throws inside the try block, and the handler
\* catch (const std::exception&) of that block catches every exception derived
\* from std::exception, the DuckDB exceptions of the switch included, and throws
\* an InternalException made of the caught exception's what().
handle_error(error_code, error_message, dplyr_code, config) ==
    LET formatted_message == format_error_message(error_code, error_message, dplyr_code,
                                                   config)
        format_error == SwitchException(error_code, formatted_message)
    IN Exception("InternalException", <<"D", "P", "L", "Y", "R", " ", "e", "r", "r", "o", "r", " ", "h", "a", "n", "d", "l", "i", "n", "g", " ", "f", "a", "i", "l", "e", "d", ":", " ">> \o format_error.what)

(***************************************************************************)
(* check_processing_timeout: duration is the elapsed time cast to whole    *)
(* milliseconds (duration_cast truncates); elapsed_us is in microseconds.  *)
(***************************************************************************)
\* a plausible slip: the limit itself taken for a timeout
check_processing_timeout_AtLeast(elapsed_us, config) ==
    LET duration == elapsed_us \div 1000
    IN IF duration >= config.max_processing_time_ms
       THEN Threw(<<"D", "P", "L", "Y", "R", " ", "p", "r", "o", "c", "e", "s", "s", "i", "n", "g", " ", "t", "i", "m", "e", "o", "u", "t", " ", "e", "x", "c", "e", "e", "d", "e", "d", ":", " ">> \o to_string(duration)
                      \o <<"m", "s", " ", ">", " ">> \o to_string(config.max_processing_time_ms) \o <<"m", "s">>,
                  <<LogRecord("ERROR", "Processing timeout exceeded", duration)>>)
       ELSE Passed(<<>>)

check_processing_timeout(elapsed_us, config) ==
    LET duration == elapsed_us \div 1000
    IN IF duration > config.max_processing_time_ms
       THEN Threw(<<"D", "P", "L", "Y", "R", " ", "p", "r", "o", "c", "e", "s", "s", "i", "n", "g", " ", "t", "i", "m", "e", "o", "u", "t", " ", "e", "x", "c", "e", "e", "d", "e", "d", ":", " ">> \o to_string(duration)
                      \o <<"m", "s", " ", ">", " ">> \o to_string(config.max_processing_time_ms) \o <<"m", "s">>,
                  <<LogRecord("ERROR", "Processing timeout exceeded", duration)>>)
       ELSE Passed(<<>>)

(***************************************************************************)
(* TranspileDplyrCode.  engine is what the one call of dplyr_compile does: *)
(* [result, sql_output, error_output, elapsed_us], the two outputs NULL or *)
(* a text.  The outcome is [thrown, type, what, sql, compiled, freed, log]:*)
(* the exception or the returned text, the fragment handed to              *)
(* dplyr_compile, the outputs released with dplyr_free_string, in order,   *)
(* and the log calls.                                                      *)
(***************************************************************************)
TranspileThrow(exception, dplyr_code, freed, log) ==
    [thrown |-> TRUE, type |-> exception.type, what |-> exception.what, sql |-> NULL,
     compiled |-> dplyr_code, freed |-> freed, log |-> log]

\* a plausible slip: the generated text returned without the test for emptiness
TranspileDplyrCode_NoEmptyCheck(dplyr_code, engine, config, debug) ==
    LET timeout == check_processing_timeout(engine.elapsed_us, config)
    IN IF timeout.thrown
       THEN TranspileThrow(Exception("ParserException", timeout.what), dplyr_code, <<>>,
                           timeout.log)
       ELSE IF ~dplyr_is_success(engine.result)
       THEN LET error_msg == IF engine.error_output # NULL THEN engine.error_output
                             ELSE <<"U", "n", "k", "n", "o", "w", "n", " ", "d", "p", "l", "y", "r", " ", "c", "o", "m", "p", "i", "l", "a", "t", "i", "o", "n", " ", "e", "r", "r", "o", "r">>
            IN TranspileThrow(handle_error(engine.result, error_msg, dplyr_code, config),
                              dplyr_code,
                              IF engine.error_output # NULL THEN <<"error_output">> ELSE <<>>,
                              <<>>)
       ELSE LET sql == IF engine.sql_output # NULL THEN engine.sql_output ELSE <<>>
            IN [thrown |-> FALSE, type |-> "none", what |-> <<>>, sql |-> sql,
                compiled |-> dplyr_code,
                freed |-> (IF engine.sql_output # NULL THEN <<"sql_output">> ELSE <<>>),
                log |-> <<>>]

TranspileDplyrCode(dplyr_code, engine, config, debug) ==
    LET timeout == check_processing_timeout(engine.elapsed_us, config)
    IN IF timeout.thrown
       THEN TranspileThrow(Exception("ParserException", timeout.what), dplyr_code, <<>>,
                           timeout.log)
       ELSE IF ~dplyr_is_success(engine.result)
       THEN LET error_msg == IF engine.error_output # NULL THEN engine.error_output
                             ELSE <<"U", "n", "k", "n", "o", "w", "n", " ", "d", "p", "l", "y", "r", " ", "c", "o", "m", "p", "i", "l", "a", "t", "i", "o", "n", " ", "e", "r", "r", "o", "r">>
            IN TranspileThrow(handle_error(engine.result, error_msg, dplyr_code, config),
                              dplyr_code,
                              IF engine.error_output # NULL THEN <<"error_output">> ELSE <<>>,
                              <<>>)
       ELSE LET sql == IF engine.sql_output # NULL THEN engine.sql_output ELSE <<>>
                freed == IF engine.sql_output # NULL THEN <<"sql_output">> ELSE <<>>
            IN IF sql = <<>>
               THEN TranspileThrow(Exception("ParserException",
                                             <<"D", "P", "L", "Y", "R", " ", "g", "e", "n", "e", "r", "a", "t", "e", "d", " ", "e", "m", "p", "t", "y", " ", "S", "Q", "L">>),
                                   dplyr_code, freed, <<>>)
               ELSE [thrown |-> FALSE, type |-> "none", what |-> <<>>, sql |-> sql,
                     compiled |-> dplyr_code, freed |-> freed,
                     log |-> (IF debug
                              THEN <<LogRecord("DEBUG", "Generated SQL", sql),
                                     LogRecord("DEBUG", "Performance: transpilation",
                                               engine.elapsed_us)>>
                              ELSE <<>>)]

(***************************************************************************)
(* Inputs of the transpile invoker and of the error formatter.             *)
(***************************************************************************)
MaxTimeLimit == 2     \* configured maximum processing times tried, in ms

Configs ==
    {[max_input_length |-> 1024 * 1024, max_processing_time_ms |-> t] : t \in 1..MaxTimeLimit}

ErrorCodes == (DPLYR_ERROR_PANIC - 1)..DPLYR_SUCCESS

\* elapsed times around the limit: none, the limit, the limit and a fraction of a
\* millisecond, the next millisecond
ElapsedTimes(config) ==
    {0, config.max_processing_time_ms * 1000, config.max_processing_time_ms * 1000 + 999,
     (config.max_processing_time_ms + 1) * 1000}

EngineOutcomes(config) ==
    [result : ErrorCodes,
     sql_output : {NULL, <<>>, <<"S", "E", "L", "E", "C", "T", " ", "x", " ", "F", "R", "O", "M", " ", "t">>},
     error_output : {NULL, <<"u", "n", "e", "x", "p", "e", "c", "t", "e", "d", " ", "t", "o", "k", "e", "n">>},
     elapsed_us : ElapsedTimes(config)]

\* fragments of the lengths around the display limit
DisplayFragments ==
    {<<"t", " ", "%", ">", "%", " ", "f", "(", ")">>} \cup {<<"t", " ", "%", ">", "%", " ", "f", "(">> \o Rep(<<"x">>, n - 9) \o <<")">> : n \in Near(MAX_DISPLAY_LENGTH)}

InitTranspile ==
    /\ input \in {[text |-> <<"t", " ", "%", ">", "%", " ", "f", "(", ")">>, engine |-> e, config |-> c, debug |-> d] :
                    c \in Configs, e \in UNION {EngineOutcomes(cc) : cc \in Configs},
                    d \in BOOLEAN}
    /\ op = "none"
    /\ out = <<>>

Transpile ==
    /\ op = "none"
    /\ op' = "TranspileDplyrCode"
    /\ out' = TranspileDplyrCode(input.text, input.engine, input.config, input.debug)
    /\ UNCHANGED input

SpecTranspile == InitTranspile /\ [][Transpile]_vars

InitFormat ==
    /\ input \in {[text |-> t, error_code |-> c, error_message |-> <<"u", "n", "e", "x", "p", "e", "c", "t", "e", "d", " ", "t", "o", "k", "e", "n">>,
                   config |-> cf] :
                    t \in DisplayFragments, c \in ErrorCodes \ {DPLYR_SUCCESS}, cf \in Configs}
    /\ op = "none"
    /\ out = <<>>

FormatErrorMessage ==
    /\ op = "none"
    /\ op' = "format_error_message"
    /\ out' = format_error_message(input.error_code, input.error_message, input.text,
                                   input.config)
    /\ UNCHANGED input

SpecFormat == InitFormat /\ [][FormatErrorMessage]_vars

(***************************************************************************)
(* Properties of the transpile invoker and of the error formatter.         *)
(***************************************************************************)
EndsWith(s, suffix) ==
    Len(suffix) <= Len(s)
        /\ \A k \in 1..Len(suffix) : s[Len(s) - Len(suffix) + k] = suffix[k]

Transpiled == op = "TranspileDplyrCode"

\* the limit of the run, in microseconds
LimitUs == input.config.max_processing_time_ms * 1000

TimeoutFailure(o) ==
    o.thrown /\ o.sql = NULL /\ StartsWith(o.what, <<"D", "P", "L", "Y", "R", " ", "p", "r", "o", "c", "e", "s", "s", "i", "n", "g", " ", "t", "i", "m", "e", "o", "u", "t", " ", "e", "x", "c", "e", "e", "d", "e", "d">>)

EmptyOutputFailure(o) ==
    o.thrown /\ o.sql = NULL /\ o.what = <<"D", "P", "L", "Y", "R", " ", "g", "e", "n", "e", "r", "a", "t", "e", "d", " ", "e", "m", "p", "t", "y", " ", "S", "Q", "L">>

NoText(t) == t = NULL \/ t = <<>>

\* the outcome as the engine's result alone decides it
EngineDecided(o, engine) ==
    IF engine.result = 0
    THEN IF NoText(engine.sql_output)
         THEN EmptyOutputFailure(o)
         ELSE ~o.thrown /\ o.sql = engine.sql_output
    ELSE /\ o.thrown
         /\ o.sql = NULL
         /\ ~TimeoutFailure(o)
         /\ Contains(o.what, IF engine.error_output = NULL
                             THEN <<"U", "n", "k", "n", "o", "w", "n", " ", "d", "p", "l", "y", "r", " ", "c", "o", "m", "p", "i", "l", "a", "t", "i", "o", "n", " ", "e", "r", "r", "o", "r">>
                             ELSE engine.error_output)

\* C6 as stated: an engine call that took longer than the configured maximum
\* ends in a timeout failure and returns no generated text, whatever the engine
\* reported.
C6_ElapsedOverLimit ==
    Transpiled /\ input.engine.elapsed_us > LimitUs => TimeoutFailure(out)

\* C6, amended: the elapsed time counts in whole milliseconds.  When the whole
\* milliseconds elapsed are more than the configured maximum the outcome is a
\* timeout failure without generated text, whatever the engine reported, and the
\* engine was called before; otherwise the engine's result alone decides.
C6_WholeMillisecondsOverLimit ==
    Transpiled =>
        /\ out.compiled = input.text
        /\ IF input.engine.elapsed_us \div 1000 > input.config.max_processing_time_ms
           THEN TimeoutFailure(out)
           ELSE EngineDecided(out, input.engine)

C6_Witness ==
    /\ Transpiled
    /\ input.engine.elapsed_us \div 1000 > input.config.max_processing_time_ms
    /\ input.engine.result = 0
    /\ ~NoText(input.engine.sql_output)
    /\ TimeoutFailure(out)

\* the kind the switch of handle_error gives to a code
ClaimedKind(c) ==
    CASE c \in {-1, -2, -3, -4} -> "InvalidInputException"
      [] c = -5 -> "ParserException"
      [] c = -6 -> "NotImplementedException"
      [] OTHER -> "InternalException"

\* C7 as stated: when the engine reports failure with code c (and the call was
\* in time), the exception leaving TranspileDplyrCode has the kind the switch
\* of handle_error gives to c, and is not the generic "DPLYR error handling
\* failed" internal error, no formatting having failed.
C7_SwitchKindLeaves ==
    /\ Transpiled
    /\ input.engine.elapsed_us \div 1000 <= input.config.max_processing_time_ms
    /\ input.engine.result # 0
    => /\ out.thrown
       /\ out.type = ClaimedKind(input.engine.result)
       /\ ~StartsWith(out.what, <<"D", "P", "L", "Y", "R", " ", "e", "r", "r", "o", "r", " ", "h", "a", "n", "d", "l", "i", "n", "g", " ", "f", "a", "i", "l", "e", "d">>)

\* C8 as stated: engine success with an absent or empty generated text fails
\* with the empty-output error; every returned value is a non-empty text.
C8_EmptyOutputError ==
    Transpiled =>
        /\ input.engine.result = 0 /\ NoText(input.engine.sql_output)
            => EmptyOutputFailure(out)
        /\ ~out.thrown => out.sql # NULL /\ out.sql # <<>>

\* C8, amended: engine success with an absent or empty generated text always
\* fails, with the empty-output error when the timeout check passed and with
\* the timeout failure otherwise; every returned value is a non-empty text, the
\* one the engine generated.
C8_EmptyOutputFails ==
    Transpiled =>
        /\ input.engine.result = 0 /\ NoText(input.engine.sql_output)
            => IF input.engine.elapsed_us \div 1000 > input.config.max_processing_time_ms
               THEN TimeoutFailure(out)
               ELSE EmptyOutputFailure(out)
        /\ ~out.thrown
            => out.sql # NULL /\ out.sql # <<>> /\ out.sql = input.engine.sql_output

C8_Witness ==
    /\ Transpiled
    /\ input.engine.result = 0
    /\ input.engine.sql_output = <<>>
    /\ EmptyOutputFailure(out)

Formatted == op = "format_error_message"

RecoverableTrailer ==
    <<"\n", "\n", "T", "h", "i", "s", " ", "e", "r", "r", "o", "r", " ", "i", "s", " ", "r", "e", "c", "o", "v", "e", "r", "a", "b", "l", "e", ".", " ", "Y", "o", "u", " ", "c", "a", "n", " ", "t", "r", "y", " ", "a", "g", "a", "i", "n", " ", "w", "i", "t", "h", " ", "c", "o", "r", "r", "e", "c", "t", "e", "d", " ", "i", "n", "p", "u", "t", ".">>

FatalTrailer ==
    <<"\n", "\n", "T", "h", "i", "s", " ", "i", "s", " ", "a", " ", "f", "a", "t", "a", "l", " ", "e", "r", "r", "o", "r", ".", " ", "P", "l", "e", "a", "s", "e", " ", "c", "h", "e", "c", "k", " ", "y", "o", "u", "r", " ", "s", "y", "s", "t", "e", "m", " ", "c", "o", "n", "f", "i", "g", "u", "r", "a", "t", "i", "o", "n", ".">>

\* the echo of a fragment: the fragment, or its first 197 bytes and "..."
Echo(text) ==
    IF Len(text) <= 200 THEN text ELSE SubSeq(text, 1, 197) \o <<".", ".", ".">>

\* C9: for the syntax-error code the output of format_error_message contains the
\* quoted echo of the fragment, at most 200 bytes (the fragment itself, or a
\* prefix and "..."), and ends with the recoverable trailer; for every code
\* the output ends with one trailer and contains exactly one of the two.
C9_EchoAndTrailer ==
    Formatted =>
        /\ input.error_code = -5
            => /\ Len(Echo(input.text)) <= 200
               /\ Contains(out, <<"I", "n", "p", "u", "t", " ", "c", "o", "d", "e", ":", " ", "'">> \o Echo(input.text) \o <<"'", "\n">>)
               /\ EndsWith(out, RecoverableTrailer)
        /\ EndsWith(out, RecoverableTrailer) \/ EndsWith(out, FatalTrailer)
        /\ Contains(out, RecoverableTrailer) # Contains(out, FatalTrailer)

C9_Witness ==
    /\ Formatted
    /\ input.error_code = -5
    /\ Len(input.text) > 200
    /\ Contains(out, <<"x", "x", "x", ".", ".", ".", "'">>)
    /\ EndsWith(out, RecoverableTrailer)

(***************************************************************************)
(* String utilities of the host (duckdb::StringUtil) and of <cctype>, as   *)
(* the entry points use them.                                              *)
(***************************************************************************)
LowerLetters == <<"a", "b", "c", "d", "e", "f", "g", "h", "i", "j", "k", "l", "m", "n", "o", "p", "q", "r", "s", "t", "u", "v", "w", "x", "y", "z">>

UpperLetters == <<"A", "B", "C", "D", "E", "F", "G", "H", "I", "J", "K", "L", "M", "N", "O", "P", "Q", "R", "S", "T", "U", "V", "W", "X", "Y", "Z">>

toupper(c) ==
    IF \E k \in DOMAIN LowerLetters : LowerLetters[k] = c
    THEN UpperLetters[CHOOSE k \in DOMAIN LowerLetters : LowerLetters[k] = c]
    ELSE c

tolower(c) ==
    IF \E k \in DOMAIN UpperLetters : UpperLetters[k] = c
    THEN LowerLetters[CHOOSE k \in DOMAIN UpperLetters : UpperLetters[k] = c]
    ELSE c

\* StringUtil::Upper / std::transform(..., ::toupper)
Upper(s) == [k \in 1..Len(s) |-> toupper(s[k])]

\* std::transform(..., ::tolower)
Lower(s) == [k \in 1..Len(s) |-> tolower(s[k])]

\* StringUtil::Trim: the text without its leading and trailing white space
Trim(s) ==
    LET keep == {k \in 1..Len(s) : ~isspace(s[k])}
    IN IF keep = {} THEN <<>>
       ELSE SubSeq(s, CHOOSE k \in keep : \A j \in keep : k <= j,
                      CHOOSE k \in keep : \A j \in keep : k >= j)

\* StringUtil::Replace: every occurrence of from, left to right, replaced by to
RECURSIVE ReplaceFrom(_, _, _, _)
ReplaceFrom(s, from, to, pos) ==
    LET hit == find(s, from, pos)
    IN IF hit = npos THEN substr(s, pos, Len(s) - pos)
       ELSE substr(s, pos, hit - pos) \o to \o ReplaceFrom(s, from, to, hit + Len(from))

Replace(s, from, to) == ReplaceFrom(s, from, to, 0)

\* std::string::rfind(pat): the last offset where pat occurs, or npos
rfind(s, pat) ==
    LET hits == {i \in 0..(Len(s) - Len(pat)) : MatchesAt(s, pat, i)}
    IN IF hits = {} THEN npos ELSE CHOOSE i \in hits : \A j \in hits : i >= j

(***************************************************************************)
(* Helpers of the entry points.                                            *)
(***************************************************************************)
\* a hint taken without looking at its characters
ExtractLeadingTableName_AnyText(dplyr_code) ==
    LET pipe_pos == find(dplyr_code, <<"%", ">", "%">>, 0)
    IN Trim(IF pipe_pos = npos THEN dplyr_code ELSE substr(dplyr_code, 0, pipe_pos))

ExtractLeadingTableName(dplyr_code) ==
    LET pipe_pos == find(dplyr_code, <<"%", ">", "%">>, 0)
        prefix == Trim(IF pipe_pos = npos THEN dplyr_code ELSE substr(dplyr_code, 0, pipe_pos))
    IN IF prefix = <<>> THEN <<>>
       ELSE IF \A k \in 1..Len(prefix) : isalnum(prefix[k]) \/ prefix[k] = "_" \/ prefix[k] = "."
       THEN prefix
       ELSE <<>>

RECURSIVE StripLoop(_)
StripLoop(input_text) ==
    IF input_text # <<>> /\ input_text[Len(input_text)] = ";"
    THEN StripLoop(Trim(SubSeq(input_text, 1, Len(input_text) - 1)))
    ELSE input_text

StripTrailingSemicolon(input_text) == StripLoop(Trim(input_text))

\* the offset of the first byte at or after j that is not white space (the size
\* of the text if there is none)
SkipSpaces(query, j) ==
    LET stops == {k \in j..Len(query) : k = Len(query) \/ ~isspace(At(query, k))}
    IN CHOOSE k \in stops : \A m \in stops : k <= m

\* a start scanner whose content starts at the bar of the marker
FindEmbeddedStartMarker_AtBar(query, from) ==
    LET hits == {i \in from..(Len(query) - 1) :
                    /\ At(query, i) = "("
                    /\ SkipSpaces(query, i + 1) < Len(query)
                    /\ At(query, SkipSpaces(query, i + 1)) = "|"}
    IN IF hits = {}
       THEN [found |-> FALSE, marker_start |-> 0, content_start |-> 0]
       ELSE LET i == CHOOSE h \in hits : \A m \in hits : h <= m
            IN [found |-> TRUE, marker_start |-> i,
                content_start |-> SkipSpaces(query, i + 1)]

FindEmbeddedStartMarker(query, from) ==
    LET hits == {i \in from..(Len(query) - 1) :
                    /\ At(query, i) = "("
                    /\ SkipSpaces(query, i + 1) < Len(query)
                    /\ At(query, SkipSpaces(query, i + 1)) = "|"}
    IN IF hits = {}
       THEN [found |-> FALSE, marker_start |-> 0, content_start |-> 0]
       ELSE LET i == CHOOSE h \in hits : \A m \in hits : h <= m
            IN [found |-> TRUE, marker_start |-> i,
                content_start |-> SkipSpaces(query, i + 1) + 1]

\* an end scanner that takes the end of the text for an end marker
FindEmbeddedEndMarker_EndOfText(query, from) ==
    LET hits == {i \in from..(Len(query) - 1) :
                    /\ At(query, i) = "|"
                    /\ SkipSpaces(query, i + 1) < Len(query)
                    /\ At(query, SkipSpaces(query, i + 1)) = ")"}
    IN IF hits = {}
       THEN [found |-> TRUE, content_end |-> Len(query), marker_end |-> Len(query)]
       ELSE LET i == CHOOSE h \in hits : \A m \in hits : h <= m
            IN [found |-> TRUE, content_end |-> i, marker_end |-> SkipSpaces(query, i + 1)]

\* an end scanner that starts at the bar of the start marker
FindEmbeddedEndMarker_FromBar(query, from) ==
    LET hits == {i \in (from - 1)..(Len(query) - 1) :
                    /\ i >= 0
                    /\ At(query, i) = "|"
                    /\ SkipSpaces(query, i + 1) < Len(query)
                    /\ At(query, SkipSpaces(query, i + 1)) = ")"}
    IN IF hits = {}
       THEN [found |-> FALSE, content_end |-> 0, marker_end |-> 0]
       ELSE LET i == CHOOSE h \in hits : \A m \in hits : h <= m
            IN [found |-> TRUE, content_end |-> i, marker_end |-> SkipSpaces(query, i + 1)]

FindEmbeddedEndMarker(query, from) ==
    LET hits == {i \in from..(Len(query) - 1) :
                    /\ At(query, i) = "|"
                    /\ SkipSpaces(query, i + 1) < Len(query)
                    /\ At(query, SkipSpaces(query, i + 1)) = ")"}
    IN IF hits = {}
       THEN [found |-> FALSE, content_end |-> 0, marker_end |-> 0]
       ELSE LET i == CHOOSE h \in hits : \A m \in hits : h <= m
            IN [found |-> TRUE, content_end |-> i, marker_end |-> SkipSpaces(query, i + 1)]

ContainsEmbeddedPipelines(query) == FindEmbeddedStartMarker(query, 0).found

(***************************************************************************)
(* The environment of a query: env.engines is what the successive calls of *)
(* dplyr_compile do, env.config the limits of the engine, env.debug the    *)
(* DPLYR_DEBUG switch, env.host what the host engine does with the texts   *)
(* it is given.  calls records, in order, every call of                    *)
(* validate_input_security and of dplyr_compile: [call, text, ok].         *)
(***************************************************************************)
Call(name, text, ok) == [call |-> name, text |-> text, ok |-> ok]

CompileCount(calls) == Cardinality({k \in 1..Len(calls) : calls[k].call = "dplyr_compile"})

\* what the next call of dplyr_compile does
NextEngine(env, calls) ==
    LET k == CompileCount(calls) + 1
    IN IF k <= Len(env.engines) THEN env.engines[k] ELSE env.engines[Len(env.engines)]

\* one call of validate_input_security: [thrown, what, calls]
CallValidate(dplyr_code, calls) ==
    With(validate_input_security(dplyr_code),
         LAMBDA verdict :
            [thrown |-> verdict.thrown, what |-> verdict.what,
             calls |-> Append(calls, Call("validate_input_security", dplyr_code,
                                          ~verdict.thrown))])

\* one call of TranspileDplyrCode: [thrown, type, what, sql, calls]
CallTranspile(dplyr_code, env, calls) ==
    With(TranspileDplyrCode(dplyr_code, NextEngine(env, calls), env.config, env.debug),
         LAMBDA t :
            [thrown |-> t.thrown, type |-> t.type, what |-> t.what, sql |-> t.sql,
             calls |-> Append(calls, Call("dplyr_compile", dplyr_code, ~t.thrown))])

\* validate_input_security followed by TranspileDplyrCode on one fragment
ValidateAndTranspile(dplyr_code, env, calls) ==
    With(CallValidate(dplyr_code, calls),
         LAMBDA verdict :
            IF verdict.thrown
            THEN [thrown |-> TRUE, type |-> "ParserException", what |-> verdict.what,
                  sql |-> NULL, calls |-> verdict.calls]
            ELSE CallTranspile(dplyr_code, env, verdict.calls))

ReplaceThrow(what, calls) ==
    [thrown |-> TRUE, type |-> "ParserException", what |-> what, output |-> NULL,
     calls |-> calls]

\* a replacer that trims the text it returns
ReplaceDone_Trimmed(output, calls) ==
    [thrown |-> FALSE, type |-> "none", what |-> <<>>, output |-> Trim(output),
     calls |-> calls]

ReplaceDone(output, calls) ==
    [thrown |-> FALSE, type |-> "none", what |-> <<>>, output |-> output, calls |-> calls]

\* a replacer that does not look for the chain operator in a segment
ReplaceSegment_NoChainCheck(embedded, calls, env) ==
    IF embedded = <<>>
    THEN ReplaceThrow(<<"E", "m", "b", "e", "d", "d", "e", "d", " ", "d", "p", "l", "y", "r", " ", "s", "e", "g", "m", "e", "n", "t", " ", "c", "a", "n", "n", "o", "t", " ", "b", "e", " ", "e", "m", "p", "t", "y">>, calls)
    ELSE IF ExtractLeadingTableName(embedded) = <<>>
    THEN ReplaceThrow(<<"D", "P", "L", "Y", "R", " ", "p", "i", "p", "e", "l", "i", "n", "e", " ", "m", "u", "s", "t", " ", "s", "t", "a", "r", "t", " ", "w", "i", "t", "h", " ", "a", " ", "t", "a", "b", "l", "e", " ", "n", "a", "m", "e">>, calls)
    ELSE With(ValidateAndTranspile(embedded, env, calls),
              LAMBDA t : [thrown |-> t.thrown, type |-> t.type, what |-> t.what,
                          output |-> t.sql, calls |-> t.calls])

\* the checks of an embedded segment and its translation: [thrown, type, what,
\* sql, calls]
ReplaceSegment(embedded, calls, env) ==
    IF embedded = <<>>
    THEN ReplaceThrow(<<"E", "m", "b", "e", "d", "d", "e", "d", " ", "d", "p", "l", "y", "r", " ", "s", "e", "g", "m", "e", "n", "t", " ", "c", "a", "n", "n", "o", "t", " ", "b", "e", " ", "e", "m", "p", "t", "y">>, calls)
    ELSE IF find(embedded, <<"%", ">", "%">>, 0) = npos
    THEN ReplaceThrow(<<"E", "m", "b", "e", "d", "d", "e", "d", " ", "d", "p", "l", "y", "r", " ", "s", "e", "g", "m", "e", "n", "t", " ", "m", "u", "s", "t", " ", "c", "o", "n", "t", "a", "i", "n", " ", "a", " ", "%", ">", "%", " ", "p", "i", "p", "e", "l", "i", "n", "e">>, calls)
    ELSE IF ExtractLeadingTableName(embedded) = <<>>
    THEN ReplaceThrow(<<"D", "P", "L", "Y", "R", " ", "p", "i", "p", "e", "l", "i", "n", "e", " ", "m", "u", "s", "t", " ", "s", "t", "a", "r", "t", " ", "w", "i", "t", "h", " ", "a", " ", "t", "a", "b", "l", "e", " ", "n", "a", "m", "e">>, calls)
    ELSE With(ValidateAndTranspile(embedded, env, calls),
              LAMBDA t : [thrown |-> t.thrown, type |-> t.type, what |-> t.what,
                          output |-> t.sql, calls |-> t.calls])

\* one turn of the while loop of ReplaceEmbeddedPipelines: st is [stop, thrown,
\* type, what, cursor, output, calls]
ReplaceStep(query, st, env) ==
    With(FindEmbeddedStartMarker(query, st.cursor),
         LAMBDA start :
            IF ~start.found
            THEN [st EXCEPT !.stop = TRUE,
                            !.output = st.output
                                \o substr(query, st.cursor, Len(query) - st.cursor)]
            ELSE
            With(FindEmbeddedEndMarker(query, start.content_start),
                 LAMBDA end :
                    IF ~end.found
                    THEN [st EXCEPT !.stop = TRUE, !.thrown = TRUE,
                                    !.type = "ParserException",
                                    !.what = <<"U", "n", "t", "e", "r", "m", "i", "n", "a", "t", "e", "d", " ", "e", "m", "b", "e", "d", "d", "e", "d", " ", "d", "p", "l", "y", "r", " ", "s", "e", "g", "m", "e", "n", "t", ":", " ", "e", "x", "p", "e", "c", "t", "e", "d", " ", "'", "|", ")", "'">>]
                    ELSE
                    With(ReplaceSegment(
                             StripTrailingSemicolon(
                                 Trim(substr(query, start.content_start,
                                             end.content_end - start.content_start))),
                             st.calls, env),
                         LAMBDA seg :
                            IF seg.thrown
                            THEN [st EXCEPT !.stop = TRUE, !.thrown = TRUE,
                                            !.type = seg.type, !.what = seg.what,
                                            !.calls = seg.calls]
                            ELSE [st EXCEPT !.cursor = end.marker_end + 1,
                                            !.output = st.output
                                                \o substr(query, st.cursor,
                                                          start.marker_start - st.cursor)
                                                \o <<"(">> \o seg.output \o <<")">>,
                                            !.calls = seg.calls])))

RECURSIVE ReplaceLoop(_, _, _)
ReplaceLoop(query, st, env) ==
    IF st.stop \/ st.cursor >= Len(query) THEN st
    ELSE With(ReplaceStep(query, st, env), LAMBDA next : ReplaceLoop(query, next, env))

\* ReplaceEmbeddedPipelines: [thrown, type, what, output, calls]
ReplaceEmbeddedPipelines(query, env) ==
    With(ReplaceLoop(query,
                     [stop |-> FALSE, thrown |-> FALSE, type |-> "none", what |-> <<>>,
                      cursor |-> 0, output |-> <<>>, calls |-> <<>>],
                     env),
         LAMBDA st :
            IF st.thrown THEN [thrown |-> TRUE, type |-> st.type, what |-> st.what,
                               output |-> NULL, calls |-> st.calls]
            ELSE ReplaceDone(st.output, st.calls))

(***************************************************************************)
(* Entry points of dplyr.cpp.  A result is [kind, type, error, sql, calls, *)
(* host_queries]: kind is "unrecognized", "error" or "parse_data" for a    *)
(* parse result, "thrown" or "bind_data" for a bind; error is the          *)
(* diagnostic, sql the generated text carried on, host_queries the texts   *)
(* run on the host.                                                        *)
(***************************************************************************)
Result(kind, type, error, sql, calls, host_queries) ==
    [kind |-> kind, type |-> type, error |-> error, sql |-> sql, calls |-> calls,
     host_queries |-> host_queries]

ParseError(error, calls) == Result("error", "none", error, NULL, calls, <<>>)

\* the exception classes derived from duckdb::Exception
DuckExceptions ==
    {"ParserException", "InvalidInputException", "NotImplementedException",
     "InternalException", "BinderException"}

\* the exception classes derived from std::exception only
StdExceptions == {"std::exception"}

\* a handler of dplyr_parse that catches parser exceptions only
CatchParse_ParserOnly(type, what, calls) ==
    IF type = "ParserException" THEN ParseError(what, calls)
    ELSE Result("thrown", type, what, NULL, calls, <<>>)

\* the catch clauses of dplyr_parse
CatchParse(type, what, calls) ==
    IF type \in DuckExceptions THEN ParseError(what, calls)
    ELSE IF type \in StdExceptions
    THEN ParseError(<<"D", "P", "L", "Y", "R", " ", "t", "r", "a", "n", "s", "p", "i", "l", "a", "t", "i", "o", "n", " ", "f", "a", "i", "l", "e", "d", ":", " ">> \o what, calls)
    ELSE Result("thrown", type, what, NULL, calls, <<>>)

\* the tail of dplyr_parse: only SELECT and WITH statements are passed on
ParseGenerated(sql, calls) ==
    LET sql_upper == Trim(Upper(sql))
    IN IF ~MatchesAt(sql_upper, <<"S", "E", "L", "E", "C", "T">>, 0) /\ ~MatchesAt(sql_upper, <<"W", "I", "T", "H">>, 0)
       THEN ParseError(<<"D", "P", "L", "Y", "R", " ", "g", "e", "n", "e", "r", "a", "t", "e", "d", " ", "a", " ", "n", "o", "n", "-", "S", "E", "L", "E", "C", "T", " ", "s", "t", "a", "t", "e", "m", "e", "n", "t", ";", " ", "o", "n", "l", "y", " ", "S", "E", "L", "E", "C", "T", " ", "i", "s", " ", "s", "u", "p", "p", "o", "r", "t", "e", "d">>,
                       calls)
       ELSE Result("parse_data", "none", <<>>, sql, calls, <<>>)

\* an embedded path that does not look at the text the replacer returns
ParseEmbedded_NoRescan(trimmed, env) ==
    With(ReplaceEmbeddedPipelines(trimmed, env),
         LAMBDA r :
            IF r.thrown THEN CatchParse(r.type, r.what, r.calls)
            ELSE ParseGenerated(r.output, r.calls))

\* the embedded path of dplyr_parse
ParseEmbedded(trimmed, env) ==
    With(ReplaceEmbeddedPipelines(trimmed, env),
         LAMBDA r :
            IF r.thrown THEN CatchParse(r.type, r.what, r.calls)
            ELSE IF find(r.output, <<"%", ">", "%">>, 0) # npos
            THEN ParseError(<<"U", "n", "p", "r", "o", "c", "e", "s", "s", "e", "d", " ", "%", ">", "%", " ", "p", "i", "p", "e", "l", "i", "n", "e", " ", "r", "e", "m", "a", "i", "n", "s", ".", " ", "W", "r", "a", "p", " ", "p", "i", "p", "e", "l", "i", "n", "e", "s", " ", "w", "i", "t", "h", " ", "(", "|", " ", ".", ".", ".", " ", "|", ")", " ", "o", "r", " ", "p", "r", "o", "v", "i", "d", "e", " ", "a", " ", "p", "u", "r", "e", " ", "p", "i", "p", "e", "l", "i", "n", "e", " ", "s", "t", "a", "t", "e", "m", "e", "n", "t", ".">>,
                            r.calls)
            ELSE ParseGenerated(r.output, r.calls))

\* the whole-statement path of dplyr_parse
ParseWhole(trimmed, env) ==
    With(StripTrailingSemicolon(trimmed),
         LAMBDA dplyr_code :
            IF ExtractLeadingTableName(dplyr_code) = <<>>
            THEN ParseError(<<"D", "P", "L", "Y", "R", " ", "p", "i", "p", "e", "l", "i", "n", "e", " ", "m", "u", "s", "t", " ", "s", "t", "a", "r", "t", " ", "w", "i", "t", "h", " ", "a", " ", "t", "a", "b", "l", "e", " ", "n", "a", "m", "e">>, <<>>)
            ELSE With(ValidateAndTranspile(dplyr_code, env, <<>>),
                      LAMBDA t : IF t.thrown THEN CatchParse(t.type, t.what, t.calls)
                                 ELSE ParseGenerated(t.sql, t.calls)))

\* a dplyr_parse that also claims the statements of the DPLYR keyword
dplyr_parse_KeywordToo(query, env) ==
    With(Trim(query),
         LAMBDA trimmed :
            IF find(trimmed, <<"%", ">", "%">>, 0) = npos /\ ~MatchesAt(Upper(trimmed), <<"D", "P", "L", "Y", "R">>, 0)
            THEN Result("unrecognized", "none", <<>>, NULL, <<>>, <<>>)
            ELSE IF trimmed = <<>>
            THEN ParseError(<<"D", "P", "L", "Y", "R", " ", "p", "i", "p", "e", "l", "i", "n", "e", " ", "c", "a", "n", "n", "o", "t", " ", "b", "e", " ", "e", "m", "p", "t", "y">>, <<>>)
            ELSE IF ContainsEmbeddedPipelines(trimmed)
            THEN ParseEmbedded(trimmed, env)
            ELSE ParseWhole(trimmed, env))

dplyr_parse(query, env) ==
    With(Trim(query),
         LAMBDA trimmed :
            IF find(trimmed, <<"%", ">", "%">>, 0) = npos
            THEN Result("unrecognized", "none", <<>>, NULL, <<>>, <<>>)
            ELSE IF trimmed = <<>>
            THEN ParseError(<<"D", "P", "L", "Y", "R", " ", "p", "i", "p", "e", "l", "i", "n", "e", " ", "c", "a", "n", "n", "o", "t", " ", "b", "e", " ", "e", "m", "p", "t", "y">>, <<>>)
            ELSE IF ContainsEmbeddedPipelines(trimmed)
            THEN ParseEmbedded(trimmed, env)
            ELSE ParseWhole(trimmed, env))

BindThrow(type, what, calls, host_queries) ==
    Result("thrown", type, what, NULL, calls, host_queries)

\* the error text of a host query that failed
HostError == <<"C", "a", "t", "a", "l", "o", "g", " ", "E", "r", "r", "o", "r", ":", " ", "T", "a", "b", "l", "e", " ", "d", "o", "e", "s", " ", "n", "o", "t", " ", "e", "x", "i", "s", "t">>

\* whether the k-th text run on the host fails
HostFails(env, k) ==
    (IF k <= Len(env.host.queries) THEN env.host.queries[k]
     ELSE env.host.queries[Len(env.host.queries)]) = "error"

\* DplyrTableBind after the validator and the test of the table name
BindGenerated(dplyr_code, env, calls) ==
    With(CallTranspile(dplyr_code, env, calls),
         LAMBDA t :
            IF t.thrown
            THEN BindThrow(t.type, t.what, t.calls, <<>>)
            ELSE IF HostFails(env, 1)
            THEN BindThrow("InvalidInputException",
                           <<"d", "p", "l", "y", "r", "(", ")", " ", "s", "c", "h", "e", "m", "a", " ", "i", "n", "f", "e", "r", "e", "n", "c", "e", " ", "f", "a", "i", "l", "e", "d", ":", " ">> \o HostError, t.calls,
                           <<<<"S", "E", "L", "E", "C", "T", " ", "*", " ", "F", "R", "O", "M", " ", "(">> \o t.sql \o <<")", " ", "A", "S", " ", "d", "p", "l", "y", "r", "_", "s", "u", "b", "q", "u", "e", "r", "y", " ", "L", "I", "M", "I", "T", " ", "0">>>>)
            ELSE Result("bind_data", "none", <<>>, t.sql, t.calls,
                        <<<<"S", "E", "L", "E", "C", "T", " ", "*", " ", "F", "R", "O", "M", " ", "(">> \o t.sql \o <<")", " ", "A", "S", " ", "d", "p", "l", "y", "r", "_", "s", "u", "b", "q", "u", "e", "r", "y", " ", "L", "I", "M", "I", "T", " ", "0">>>>))

DplyrTableBind(argument, env) ==
    IF argument = NULL
    THEN BindThrow("InvalidInputException", <<"d", "p", "l", "y", "r", "(", ")", " ", "r", "e", "q", "u", "i", "r", "e", "s", " ", "a", " ", "n", "o", "n", "-", "n", "u", "l", "l", " ", "q", "u", "e", "r", "y", " ", "s", "t", "r", "i", "n", "g">>,
                   <<>>, <<>>)
    ELSE
    With(StripTrailingSemicolon(argument),
         LAMBDA dplyr_code :
            With(CallValidate(dplyr_code, <<>>),
                 LAMBDA verdict :
                    IF verdict.thrown
                    THEN BindThrow("ParserException", verdict.what, verdict.calls, <<>>)
                    ELSE IF ExtractLeadingTableName(dplyr_code) = <<>>
                    THEN BindThrow("InvalidInputException",
                                   <<"d", "p", "l", "y", "r", "(", ")", " ", "p", "i", "p", "e", "l", "i", "n", "e", " ", "m", "u", "s", "t", " ", "s", "t", "a", "r", "t", " ", "w", "i", "t", "h", " ", "a", " ", "t", "a", "b", "l", "e", " ", "n", "a", "m", "e">>,
                                   verdict.calls, <<>>)
                    ELSE BindGenerated(dplyr_code, env, verdict.calls)))

(***************************************************************************)
(* Entry points of dplyr_extension.cpp.  Its error handler, validator and  *)
(* TranspileDplyrCode are those of dplyr.cpp.                              *)
(***************************************************************************)
suspicious_patterns ==
    <<<<"d", "r", "o", "p", " ", "t", "a", "b", "l", "e">>, <<"d", "r", "o", "p", " ", "d", "a", "t", "a", "b", "a", "s", "e">>, <<"d", "e", "l", "e", "t", "e", " ", "f", "r", "o", "m">>, <<"t", "r", "u", "n", "c", "a", "t", "e">>,
      <<"i", "n", "s", "e", "r", "t", " ", "i", "n", "t", "o">>, <<"u", "p", "d", "a", "t", "e", " ", "s", "e", "t">>, <<"c", "r", "e", "a", "t", "e", " ", "t", "a", "b", "l", "e">>, <<"a", "l", "t", "e", "r", " ", "t", "a", "b", "l", "e">>,
      <<"u", "n", "i", "o", "n", " ", "s", "e", "l", "e", "c", "t">>, <<"u", "n", "i", "o", "n", " ", "a", "l", "l">>, <<"i", "n", "f", "o", "r", "m", "a", "t", "i", "o", "n", "_", "s", "c", "h", "e", "m", "a">>,
      <<"p", "g", "_">>, <<"m", "y", "s", "q", "l", ".">>, <<"s", "q", "l", "i", "t", "e", "_">>, <<"s", "y", "s", ".">>, <<"m", "a", "s", "t", "e", "r", ".">>,
      <<"x", "p", "_">>, <<"s", "p", "_">>, <<"e", "x", "e", "c", "(">>, <<"e", "x", "e", "c", "u", "t", "e", "(">>,
      <<"s", "c", "r", "i", "p", "t">>, <<"<", "s", "c", "r", "i", "p", "t">>, <<"j", "a", "v", "a", "s", "c", "r", "i", "p", "t", ":">>, <<"v", "b", "s", "c", "r", "i", "p", "t", ":">>,
      <<"o", "n", "l", "o", "a", "d", "=">>, <<"o", "n", "e", "r", "r", "o", "r", "=">>, <<"o", "n", "c", "l", "i", "c", "k", "=">>,
      <<"e", "v", "a", "l", "(">>, <<"s", "e", "t", "t", "i", "m", "e", "o", "u", "t", "(">>, <<"s", "e", "t", "i", "n", "t", "e", "r", "v", "a", "l", "(">>,
      <<"d", "o", "c", "u", "m", "e", "n", "t", ".">>, <<"w", "i", "n", "d", "o", "w", ".">>, <<"a", "l", "e", "r", "t", "(">>,
      <<"/", "*">>, <<"*", "/">>, <<"-", "-">>, <<"@", "@">>, <<"c", "h", "a", "r", "(">>,
      <<"w", "a", "i", "t", "f", "o", "r", " ", "d", "e", "l", "a", "y">>, <<"b", "e", "n", "c", "h", "m", "a", "r", "k", "(">>, <<"s", "l", "e", "e", "p", "(">>,
      <<"l", "o", "a", "d", "_", "f", "i", "l", "e", "(">>, <<"i", "n", "t", "o", " ", "o", "u", "t", "f", "i", "l", "e">>, <<"i", "n", "t", "o", " ", "d", "u", "m", "p", "f", "i", "l", "e">>>>

\* the characters contains_suspicious_patterns does not count as special
PlainPunctuation ==
    {"(", ")", ",", ".", "_", "%", ">", "=", "\"", "'", "+", "-", "*", "/", "<", "!"}

contains_suspicious_patterns(code) ==
    LET lower_code == Lower(code)
        special_char_count ==
            Cardinality({k \in 1..Len(code) :
                            /\ ~isalnum(code[k])
                            /\ ~isspace(code[k])
                            /\ code[k] \notin PlainPunctuation})
    IN \/ \E p \in DOMAIN suspicious_patterns :
              find(lower_code, suspicious_patterns[p], 0) # npos
       \/ Len(code) > 0 /\ (special_char_count * 100) \div Len(code) > 20

\* validate_dplyr_code_content: [thrown, what]
validate_dplyr_code_content(code, config) ==
    IF code = <<>>
    THEN [thrown |-> TRUE, what |-> <<"D", "P", "L", "Y", "R", " ", "s", "t", "r", "i", "n", "g", " ", "l", "i", "t", "e", "r", "a", "l", " ", "c", "a", "n", "n", "o", "t", " ", "b", "e", " ", "e", "m", "p", "t", "y">>]
    ELSE IF Len(code) < 3
    THEN [thrown |-> TRUE,
          what |-> <<"D", "P", "L", "Y", "R", " ", "c", "o", "d", "e", " ", "t", "o", "o", " ", "s", "h", "o", "r", "t", " ", "-", " ", "m", "u", "s", "t", " ", "c", "o", "n", "t", "a", "i", "n", " ", "v", "a", "l", "i", "d", " ", "d", "p", "l", "y", "r", " ", "o", "p", "e", "r", "a", "t", "i", "o", "n", "s">>]
    ELSE IF Len(code) > config.max_input_length
    THEN [thrown |-> TRUE,
          what |-> <<"D", "P", "L", "Y", "R", " ", "c", "o", "d", "e", " ", "t", "o", "o", " ", "l", "o", "n", "g", " ", "-", " ", "e", "x", "c", "e", "e", "d", "s", " ", "m", "a", "x", "i", "m", "u", "m", " ", "i", "n", "p", "u", "t", " ", "l", "e", "n", "g", "t", "h", " ", "o", "f", " ">>
                       \o to_string(config.max_input_length) \o <<" ", "c", "h", "a", "r", "a", "c", "t", "e", "r", "s">>]
    ELSE IF contains_suspicious_patterns(code)
    THEN [thrown |-> TRUE,
          what |-> <<"D", "P", "L", "Y", "R", " ", "c", "o", "d", "e", " ", "c", "o", "n", "t", "a", "i", "n", "s", " ", "s", "u", "s", "p", "i", "c", "i", "o", "u", "s", " ", "p", "a", "t", "t", "e", "r", "n", "s", " ", "-", " ", "u", "s", "e", " ", "p", "r", "o", "p", "e", "r", " ", "d", "p", "l", "y", "r", " ", "s", "y", "n", "t", "a", "x">>]
    ELSE [thrown |-> FALSE, what |-> <<>>]

\* validate_and_extract_from_string: [thrown, what, code]
validate_and_extract_from_string(sql_string, config) ==
    LET trimmed == Trim(sql_string)
        quote_start == find(trimmed, <<"'">>, 5)
        quote_end == find(trimmed, <<"'">>, quote_start + 1)
        dplyr_code == Replace(substr(trimmed, quote_start + 1, quote_end - quote_start - 1),
                              <<"'", "'">>, <<"'">>)
        content == validate_dplyr_code_content(dplyr_code, config)
    IN IF ~MatchesAt(Upper(trimmed), <<"D", "P", "L", "Y", "R">>, 0)
       THEN [thrown |-> TRUE, what |-> <<"E", "x", "p", "e", "c", "t", "e", "d", " ", "D", "P", "L", "Y", "R", " ", "k", "e", "y", "w", "o", "r", "d", " ", "a", "t", " ", "s", "t", "a", "r", "t", " ", "o", "f", " ", "s", "t", "a", "t", "e", "m", "e", "n", "t">>,
             code |-> NULL]
       ELSE IF quote_start = npos
       THEN [thrown |-> TRUE,
             what |-> <<"D", "P", "L", "Y", "R", " ", "k", "e", "y", "w", "o", "r", "d", " ", "m", "u", "s", "t", " ", "b", "e", " ", "f", "o", "l", "l", "o", "w", "e", "d", " ", "b", "y", " ", "a", " ", "s", "t", "r", "i", "n", "g", " ", "l", "i", "t", "e", "r", "a", "l", " ", "c", "o", "n", "t", "a", "i", "n", "i", "n", "g", " ", "d", "p", "l", "y", "r", " ", "c", "o", "d", "e">>,
             code |-> NULL]
       ELSE IF quote_end = npos
       THEN [thrown |-> TRUE, what |-> <<"U", "n", "t", "e", "r", "m", "i", "n", "a", "t", "e", "d", " ", "s", "t", "r", "i", "n", "g", " ", "l", "i", "t", "e", "r", "a", "l", " ", "i", "n", " ", "D", "P", "L", "Y", "R", " ", "s", "t", "a", "t", "e", "m", "e", "n", "t">>,
             code |-> NULL]
       ELSE IF content.thrown
       THEN [thrown |-> TRUE, what |-> content.what, code |-> NULL]
       ELSE [thrown |-> FALSE, what |-> <<>>, code |-> dplyr_code]

\* the error text of a generated text the host parser refuses
HostParseError == <<"P", "a", "r", "s", "e", "r", " ", "E", "r", "r", "o", "r", ":", " ", "s", "y", "n", "t", "a", "x", " ", "e", "r", "r", "o", "r">>

\* dplyr_parse of dplyr_extension.cpp, from the validator on
ParseFragment_ext(dplyr_code, env) ==
    With(ValidateAndTranspile(dplyr_code, env, <<>>),
         LAMBDA t :
            LET table_hint == ExtractLeadingTableName(dplyr_code)
                sql == IF table_hint # <<>>
                       THEN Replace(t.sql, <<"\"", "d", "a", "t", "a", "\"">>, <<"\"">> \o table_hint \o <<"\"">>)
                       ELSE t.sql
            IN IF t.thrown THEN ParseError(t.what, t.calls)
               ELSE IF env.host.parse = "error" THEN ParseError(HostParseError, t.calls)
               ELSE IF env.host.parse = "empty"
               THEN ParseError(<<"D", "P", "L", "Y", "R", " ", "g", "e", "n", "e", "r", "a", "t", "e", "d", " ", "S", "Q", "L", " ", "c", "o", "u", "l", "d", " ", "n", "o", "t", " ", "b", "e", " ", "p", "a", "r", "s", "e", "d">>, t.calls)
               ELSE Result("parse_data", "none", <<>>, sql, t.calls, <<>>))

\* the keyword path of dplyr_parse
ParseKeyword_ext(trimmed, env) ==
    With(validate_and_extract_from_string(trimmed, env.config),
         LAMBDA extracted :
            IF extracted.thrown THEN ParseError(extracted.what, <<>>)
            ELSE ParseFragment_ext(extracted.code, env))

dplyr_parse_ext(query, env) ==
    With(Trim(query),
         LAMBDA trimmed :
            LET has_keyword == MatchesAt(Upper(trimmed), <<"D", "P", "L", "Y", "R">>, 0)
                looks_like_pipeline == find(trimmed, <<"%", ">", "%">>, 0) # npos
            IN IF ~has_keyword /\ ~looks_like_pipeline
               THEN Result("unrecognized", "none", <<>>, NULL, <<>>, <<>>)
               ELSE IF has_keyword
               THEN ParseKeyword_ext(trimmed, env)
               ELSE IF trimmed = <<>>
               THEN ParseError(<<"D", "P", "L", "Y", "R", " ", "p", "i", "p", "e", "l", "i", "n", "e", " ", "c", "a", "n", "n", "o", "t", " ", "b", "e", " ", "e", "m", "p", "t", "y">>, <<>>)
               ELSE ParseFragment_ext(trimmed, env))

\* SimpleMutateFallback: the query text built from the raw argument, or NULL
SimpleMutateFallback(dplyr_code) ==
    LET pipe_pos == find(dplyr_code, <<"%", ">", "%">>, 0)
        mutate_pos == find(dplyr_code, <<"m", "u", "t", "a", "t", "e">>, pipe_pos)
        open == find(dplyr_code, <<"(">>, mutate_pos)
        close == rfind(dplyr_code, <<")">>)
        base_sql == Trim(substr(dplyr_code, 0, pipe_pos))
        mutate_body == Trim(substr(dplyr_code, open + 1, close - open - 1))
        equal_pos == find(mutate_body, <<"=">>, 0)
        lhs == Trim(substr(mutate_body, 0, equal_pos))
        rhs == Trim(substr(mutate_body, equal_pos + 1, Len(mutate_body) - equal_pos - 1))
        body == IF equal_pos # npos /\ lhs # <<>> /\ rhs # <<>>
                THEN rhs \o <<" ", "A", "S", " ">> \o lhs
                ELSE mutate_body
    IN IF pipe_pos = npos THEN NULL
       ELSE IF mutate_pos = npos THEN NULL
       ELSE IF open = npos \/ close = npos \/ close <= open + 1 THEN NULL
       ELSE IF base_sql = <<>> \/ mutate_body = <<>> THEN NULL
       ELSE <<"W", "I", "T", "H", " ", "d", "p", "l", "y", "r", "_", "b", "a", "s", "e", " ", "A", "S", " ", "(">> \o base_sql \o <<")", " ", "S", "E", "L", "E", "C", "T", " ", "d", "p", "l", "y", "r", "_", "b", "a", "s", "e", ".", "*", ",", " ">> \o body
                \o <<" ", "F", "R", "O", "M", " ", "d", "p", "l", "y", "r", "_", "b", "a", "s", "e">>

\* DplyrTableBind of dplyr_extension.cpp after the call of TranspileDplyrCode
BindTranspiled_ext(argument, env, t) ==
    LET sql == IF t.thrown THEN <<>> ELSE t.sql
        ran == IF sql = <<>> THEN <<>> ELSE <<sql>>
        failed == sql = <<>> \/ HostFails(env, 1)
        error_message == IF sql = <<>> THEN t.what ELSE HostError
    IN IF ~failed
       THEN Result("bind_data", "none", <<>>, sql, t.calls, ran)
       ELSE With(SimpleMutateFallback(argument),
                 LAMBDA fallback_sql :
                    IF fallback_sql = NULL
                    THEN BindThrow("InvalidInputException",
                                   <<"d", "p", "l", "y", "r", "(", ")", " ", "f", "a", "i", "l", "e", "d", " ", "t", "o", " ", "t", "r", "a", "n", "s", "p", "i", "l", "e", " ", "o", "r", " ", "e", "x", "e", "c", "u", "t", "e", ":", " ">>
                                       \o error_message,
                                   t.calls, ran)
                    ELSE IF HostFails(env, Len(ran) + 1)
                    THEN BindThrow("InvalidInputException",
                                   <<"d", "p", "l", "y", "r", "(", ")", " ", "f", "a", "l", "l", "b", "a", "c", "k", " ", "f", "a", "i", "l", "e", "d", " ", "t", "o", " ", "e", "x", "e", "c", "u", "t", "e", ":", " ">> \o HostError,
                                   t.calls, Append(ran, fallback_sql))
                    ELSE Result("bind_data", "none", <<>>, fallback_sql, t.calls,
                                Append(ran, fallback_sql)))

DplyrTableBind_ext(argument, env) ==
    IF argument = NULL
    THEN BindThrow("InvalidInputException", <<"d", "p", "l", "y", "r", "(", ")", " ", "r", "e", "q", "u", "i", "r", "e", "s", " ", "a", " ", "n", "o", "n", "-", "n", "u", "l", "l", " ", "q", "u", "e", "r", "y", " ", "s", "t", "r", "i", "n", "g">>,
                   <<>>, <<>>)
    ELSE With(CallTranspile(argument, env, <<>>),
              LAMBDA t : BindTranspiled_ext(argument, env, t))

(***************************************************************************)
(* The entry points as a state machine: a query arrives with the           *)
(* environment it runs in, and one entry point handles it.                 *)
(***************************************************************************)
\* pipeline texts: accepted, rejected by the validator, without a table name,
\* with a trailing semicolon, without a chain operator, empty
Fragments ==
    {<<"t", " ", "%", ">", "%", " ", "f", "(", "x", ")">>, <<"t", " ", "%", ">", "%", " ", "s", "y", "s", "t", "e", "m", "(", "x", ")">>, <<"%", ">", "%", " ", "f", "(", "x", ")">>, <<"t", " ", "%", ">", "%", " ", "m", "u", "t", "a", "t", "e", "(", "y", " ", "=", " ", "x", ")", ";">>, <<"t">>,
     <<>>}

\* the texts a fragment arrives in: alone, embedded, embedded with white space in
\* the markers, as the second of two segments, unterminated, followed by a chain
\* operator, after the DPLYR keyword
QueriesOf(p) ==
    {p,
     <<"S", "E", "L", "E", "C", "T", " ", "*", " ", "F", "R", "O", "M", " ", "(", "|", " ">> \o p \o <<" ", "|", ")">>,
     <<" ", " ", "S", "E", "L", "E", "C", "T", " ", "*", " ", "F", "R", "O", "M", " ", "(", " ", "|", " ">> \o p \o <<"|", " ", " ", ")", " ", "A", "S", " ", "s", ";">>,
     <<"S", "E", "L", "E", "C", "T", " ", "*", " ", "F", "R", "O", "M", " ", "(", "|", " ", "t", " ", "%", ">", "%", " ", "f", "(", "x", ")", " ", "|", ")", " ", "J", "O", "I", "N", " ", "(", "|", " ">> \o p \o <<" ", "|", ")">>,
     <<"S", "E", "L", "E", "C", "T", " ", "*", " ", "F", "R", "O", "M", " ", "(", "|", " ">> \o p,
     <<"(", "|", " ">> \o p \o <<" ", "|", ")", " ", "%", ">", "%", " ", "g", "(", ")">>,
     <<"d", "p", "l", "y", "r", " ", "'">> \o p \o <<"'">>}

Queries ==
    UNION {QueriesOf(p) : p \in Fragments} \cup {<<"S", "E", "L", "E", "C", "T", " ", "1">>, <<"D", "P", "L", "Y", "R", " ", "t">>, NULL}

\* an elapsed time over every configured limit
Overrun == (MaxTimeLimit + 1) * 1000

EngineReply(result, sql_output, error_output, elapsed_us) ==
    [result |-> result, sql_output |-> sql_output, error_output |-> error_output,
     elapsed_us |-> elapsed_us]

\* what the first call of dplyr_compile does
FirstReplies ==
    {EngineReply(DPLYR_SUCCESS, <<"S", "E", "L", "E", "C", "T", " ", "x", " ", "F", "R", "O", "M", " ", "\"", "d", "a", "t", "a", "\"">>, NULL, 0),
     EngineReply(DPLYR_SUCCESS, <<"D", "E", "L", "E", "T", "E", " ", "F", "R", "O", "M", " ", "t">>, NULL, 0),
     EngineReply(DPLYR_SUCCESS, <<>>, NULL, 0),
     EngineReply(DPLYR_SUCCESS, <<"S", "E", "L", "E", "C", "T", " ", "x", " ", "F", "R", "O", "M", " ", "t">>, NULL, Overrun),
     EngineReply(DPLYR_ERROR_SYNTAX, NULL, <<"u", "n", "e", "x", "p", "e", "c", "t", "e", "d", " ", "t", "o", "k", "e", "n">>, 0),
     EngineReply(DPLYR_ERROR_INPUT_TOO_LARGE, NULL, <<"i", "n", "p", "u", "t", " ", "t", "o", "o", " ", "l", "a", "r", "g", "e">>, 0),
     EngineReply(DPLYR_ERROR_INTERNAL, NULL, NULL, 0)}

\* what the second call does
SecondReplies ==
    {EngineReply(DPLYR_SUCCESS, <<"S", "E", "L", "E", "C", "T", " ", "y", " ", "F", "R", "O", "M", " ", "u">>, NULL, 0),
     EngineReply(DPLYR_ERROR_UNSUPPORTED, NULL, <<"u", "n", "s", "u", "p", "p", "o", "r", "t", "e", "d", " ", "f", "u", "n", "c", "t", "i", "o", "n">>, 0)}

\* what the host does: with the text given to its parser, with the texts it runs
Hosts ==
    {[parse |-> "ok", queries |-> <<"ok", "ok">>],
     [parse |-> "empty", queries |-> <<"error", "ok">>],
     [parse |-> "error", queries |-> <<"error", "error">>]}

Environments ==
    [engines : {<<a, b>> : a \in FirstReplies, b \in SecondReplies},
     config : {c \in Configs : c.max_processing_time_ms = MaxTimeLimit},
     debug : {FALSE},
     host : Hosts]

Init ==
    /\ input \in [query : Queries, env : Environments]
    /\ op = "none"
    /\ out = <<>>

\* a statement given to the parser extension of dplyr.cpp
ParseStatement ==
    /\ op = "none"
    /\ input.query # NULL
    /\ op' = "dplyr_parse"
    /\ out' = dplyr_parse(input.query, input.env)
    /\ UNCHANGED input

\* SELECT * FROM dplyr(argument), dplyr.cpp
TableBind ==
    /\ op = "none"
    /\ op' = "DplyrTableBind"
    /\ out' = DplyrTableBind(input.query, input.env)
    /\ UNCHANGED input

\* a statement given to the parser extension of dplyr_extension.cpp
ParseStatement_ext ==
    /\ op = "none"
    /\ input.query # NULL
    /\ op' = "dplyr_parse_ext"
    /\ out' = dplyr_parse_ext(input.query, input.env)
    /\ UNCHANGED input

\* SELECT * FROM dplyr(argument), dplyr_extension.cpp
TableBind_ext ==
    /\ op = "none"
    /\ op' = "DplyrTableBind_ext"
    /\ out' = DplyrTableBind_ext(input.query, input.env)
    /\ UNCHANGED input

Next == ParseStatement \/ TableBind \/ ParseStatement_ext \/ TableBind_ext

Spec == Init /\ [][Next]_vars

(***************************************************************************)
(* Properties of the entry points.                                         *)
(***************************************************************************)
Handled == op \in {"dplyr_parse", "DplyrTableBind", "dplyr_parse_ext", "DplyrTableBind_ext"}

\* the k-th call is a call of dplyr_compile on a fragment that an earlier call
\* of validate_input_security accepted
CompiledAfterAccepted(calls, k) ==
    \E j \in 1..(k - 1) :
        /\ calls[j].call = "validate_input_security"
        /\ calls[j].text = calls[k].text
        /\ calls[j].ok

\* C1 as stated: at every entry point of dplyr.cpp and dplyr_extension.cpp,
\* dplyr_compile is called on a fragment only after validate_input_security
\* has run on that same fragment and accepted it.
C1_CompiledOnlyAfterAccepted ==
    Handled =>
        \A k \in 1..Len(out.calls) :
            out.calls[k].call = "dplyr_compile" => CompiledAfterAccepted(out.calls, k)

Rejected == Handled /\ out.kind \in {"error", "thrown"}

\* the names of the taxonomy, as the formatter brackets them
HasTaxonomyName(error) ==
    \E c \in ErrorCodes : Contains(error, <<"[">> \o dplyr_error_code_name(c) \o <<"]">>)

\* C10 as stated: every rejection of a query yields a non-empty error string
\* that contains the taxonomy name of the error and a list of suggestions.
C10_NamedWithSuggestions ==
    Rejected =>
        /\ out.error # <<>>
        /\ HasTaxonomyName(out.error)
        /\ Contains(out.error, <<"S", "u", "g", "g", "e", "s", "t", "i", "o", "n", "s", ":">>)

(***************************************************************************)
(* Statements with embedded segments.  A statement is given by its pieces: *)
(* host text, a segment between its markers, or a start marker that no end *)
(* marker follows.  A piece is [kind, open, text, close].                  *)
(***************************************************************************)
Piece(kind, open, text, close) ==
    [kind |-> kind, open |-> open, text |-> text, close |-> close]

HostText(text) == Piece("host", <<>>, text, <<>>)

Segment(open, content, close) == Piece("seg", open, content, close)

Unterminated(open, content) == Piece("open", open, content, <<>>)

PieceText(x) == x.open \o x.text \o x.close

RECURSIVE Assemble(_)
Assemble(pieces) ==
    IF pieces = <<>> THEN <<>> ELSE PieceText(Head(pieces)) \o Assemble(Tail(pieces))

\* the contents of a segment: a pipeline, one the validator rejects, one without
\* a table name, one with a trailing semicolon, no chain operator, nothing
Contents ==
    {<<" ", "t", " ", "%", ">", "%", " ", "f", "(", "x", ")", " ">>, <<" ", "t", " ", "%", ">", "%", " ", "s", "y", "s", "t", "e", "m", "(", "x", ")", " ">>, <<" ", "%", ">", "%", " ", "f", "(", "x", ")", " ">>, <<"t", " ", "%", ">", "%", " ", "m", "u", "t", "a", "t", "e", "(", "y", " ", "=", " ", "x", ")", ";">>,
     <<" ", "t", " ">>, <<>>, <<" ", ";", " ">>, <<" ", "a", " ", "b", " ", "%", ">", "%", " ", "f", "(", "x", ")", " ">>}

\* host text around one segment: a SELECT statement, markers with white space,
\* nothing, other statements, a chain operator outside the markers
Frames(x) ==
    {<<HostText(<<"S", "E", "L", "E", "C", "T", " ", "*", " ", "F", "R", "O", "M", " ">>), Segment(<<"(", "|">>, x, <<"|", ")">>)>>,
     <<HostText(<<" ", " ", "S", "E", "L", "E", "C", "T", " ", "a", " ", "|", "|", " ", "b", ",", " ", "(", "1", ")", " ", "F", "R", "O", "M", " ">>), Segment(<<"(", " ", "|">>, x, <<"|", " ", " ", ")">>),
       HostText(<<" ", "A", "S", " ", "s", " ", "|", ")", " ", ";">>)>>,
     <<Segment(<<"(", "|">>, x, <<"|", ")">>)>>,
     <<HostText(<<"C", "R", "E", "A", "T", "E", " ", "T", "A", "B", "L", "E", " ", "r", " ", "A", "S", " ", "S", "E", "L", "E", "C", "T", " ", "*", " ", "F", "R", "O", "M", " ">>), Segment(<<"(", "|">>, x, <<"|", ")">>)>>,
     <<HostText(<<"W", "I", "T", "H", " ", "b", " ", "A", "S", " ">>), Segment(<<"(", "|">>, x, <<"|", ")">>),
       HostText(<<" ", "S", "E", "L", "E", "C", "T", " ", "*", " ", "F", "R", "O", "M", " ", "b">>)>>,
     <<HostText(<<"S", "E", "L", "E", "C", "T", " ", "*", " ", "F", "R", "O", "M", " ">>), Segment(<<"(", "|">>, <<" ", "t", " ", "%", ">", "%", " ", "f", "(", "x", ")", " ">>, <<"|", ")">>),
       HostText(<<" ", "J", "O", "I", "N", " ">>), Segment(<<"(", "|">>, x, <<"|", " ", ")">>), HostText(<<" ", "U", "S", "I", "N", "G", " ", "(", "x", ")">>)>>,
     <<Segment(<<"(", "|">>, x, <<"|", ")">>), HostText(<<" ", "%", ">", "%", " ", "g", "(", ")">>)>>,
     <<HostText(<<"S", "E", "L", "E", "C", "T", " ", "*", " ", "F", "R", "O", "M", " ">>), Unterminated(<<"(", "|">>, x)>>,
     <<HostText(<<"S", "E", "L", "E", "C", "T", " ", "*", " ", "F", "R", "O", "M", " ">>), Segment(<<"(", "|">>, <<" ", "t", " ", "%", ">", "%", " ", "f", "(", "x", ")", " ">>, <<"|", ")">>),
       HostText(<<",", " ">>), Unterminated(<<"(", " ", "|">>, x \o <<"|", " ", ";">>)>>}

\* statements without markers
Plain ==
    {<<HostText(<<"t", " ", "%", ">", "%", " ", "f", "(", "x", ")">>)>>, <<HostText(<<" ", "t", " ", "%", ">", "%", " ", "s", "y", "s", "t", "e", "m", "(", "x", ")", " ", ";">>)>>,
     <<HostText(<<"s", ".", "t", "_", "1", " ", "%", ">", "%", " ", "f", "(", "x", ")">>)>>, <<HostText(<<"t", "-", "1", " ", "%", ">", "%", " ", "f", "(", "x", ")", ";">>)>>,
     <<HostText(<<"%", ">", "%", " ", "f", "(", "x", ")">>)>>, <<HostText(<<"S", "E", "L", "E", "C", "T", " ", "1">>)>>, <<HostText(<<"D", "P", "L", "Y", "R", " ", "t">>)>>,
     <<HostText(<<"S", "E", "L", "E", "C", "T", " ", "(", "1", ")", " ", "|", ")", " ", "x">>)>>, <<HostText(<<" ">>)>>, <<>>}

Statements == UNION {Frames(x) : x \in Contents} \cup Plain

\* what the calls of dplyr_compile do for a statement with segments
EnvironmentsEmbedded ==
    [engines : {<<a, b>> :
                   a \in FirstReplies
                          \cup {EngineReply(DPLYR_SUCCESS, <<"S", "E", "L", "E", "C", "T", " ", "'", "%", ">", "%", "'", " ", "F", "R", "O", "M", " ", "t">>, NULL, 0)},
                   b \in SecondReplies},
     config : {c \in Configs : c.max_processing_time_ms = MaxTimeLimit},
     debug : {FALSE},
     host : {h \in Hosts : h.parse = "ok"}]

InitEmbedded ==
    /\ input \in {[query |-> Assemble(s), pieces |-> s, env |-> e] :
                     s \in Statements, e \in EnvironmentsEmbedded}
    /\ op = "none"
    /\ out = <<>>

\* a call of ReplaceEmbeddedPipelines on the text of the statement
ReplaceEmbedded ==
    /\ op = "none"
    /\ op' = "ReplaceEmbeddedPipelines"
    /\ out' = ReplaceEmbeddedPipelines(input.query, input.env)
    /\ UNCHANGED input

NextEmbedded == ParseStatement \/ ReplaceEmbedded

SpecEmbedded == InitEmbedded /\ [][NextEmbedded]_vars

(***************************************************************************)
(* Properties of dplyr_parse of dplyr.cpp.                                 *)
(***************************************************************************)
Parsed == op = "dplyr_parse"

\* the pieces of the statement of a given kind
PiecesOf(kind) == {k \in 1..Len(input.pieces) : input.pieces[k].kind = kind}

\* the content of a segment as the replacer reads it is empty
Blank(text) == \A k \in 1..Len(text) : isspace(text[k]) \/ text[k] = ";"

\* the replacer fails on the statement whatever the engine does: a start marker
\* without end marker, or a segment without a pipeline
ReplacerFails ==
    \/ PiecesOf("open") # {}
    \/ \E k \in PiecesOf("seg") :
           Blank(input.pieces[k].text) \/ ~Contains(input.pieces[k].text, <<"%", ">", "%">>)

\* the validator, the timeout check, the engine call or the error handler failed
CallFailed(calls) == \E k \in 1..Len(calls) : ~calls[k].ok

\* C11: dplyr_parse never lets an error escape: its result is one of "not for
\* this extension", an error result with a diagnostic string, or parse data with
\* generated query text, and every failure of the replacer, the validator, the
\* timeout check, the engine call or the error handler gives an error result.
C11_ParseNeverThrows ==
    Parsed =>
        /\ out.kind \in {"unrecognized", "error", "parse_data"}
        /\ out.kind = "error" => out.error \notin {<<>>, NULL} /\ out.sql = NULL
        /\ out.kind = "parse_data" => out.sql \notin {<<>>, NULL} /\ out.error = <<>>
        /\ CallFailed(out.calls) => out.kind = "error"
        /\ ReplacerFails /\ Contains(input.query, <<"%", ">", "%">>) => out.kind = "error"

\* the error handler threw inside dplyr_parse and the result is an error result
C11_Witness ==
    /\ Parsed
    /\ CallFailed(out.calls)
    /\ out.kind = "error"
    /\ Contains(out.error, <<"D", "P", "L", "Y", "R", " ", "e", "r", "r", "o", "r", " ", "h", "a", "n", "d", "l", "i", "n", "g", " ", "f", "a", "i", "l", "e", "d">>)

\* C12: dplyr_parse of dplyr.cpp returns "not for this extension" exactly when
\* the query contains no chain operator; it then has called neither the
\* validator nor the engine and carries nothing.
C12_UnrecognizedIffNoChain ==
    Parsed =>
        /\ out.kind = "unrecognized" <=> ~Contains(input.query, <<"%", ">", "%">>)
        /\ out.kind = "unrecognized" =>
               /\ out.calls = <<>>
               /\ out.host_queries = <<>>
               /\ out.sql = NULL
               /\ out.error = <<>>

\* a statement with a marked segment and no chain operator is not looked at
C12_Witness ==
    /\ Parsed
    /\ out.kind = "unrecognized"
    /\ PiecesOf("seg") # {}
    /\ out.calls = <<>>

(***************************************************************************)
(* Properties of ReplaceEmbeddedPipelines.                                 *)
(***************************************************************************)
Replaced == op = "ReplaceEmbeddedPipelines"

\* the text the k-th call of the engine generates
GeneratedText(k) == input.env.engines[k].sql_output

\* the pieces from the k-th on, every segment replaced by the generated text in
\* parentheses; n is the number of segments before the k-th piece
RECURSIVE ExpectedFrom(_, _)
ExpectedFrom(k, n) ==
    IF k > Len(input.pieces) THEN <<>>
    ELSE IF input.pieces[k].kind = "seg"
    THEN <<"(">> \o GeneratedText(n + 1) \o <<")">> \o ExpectedFrom(k + 1, n + 1)
    ELSE PieceText(input.pieces[k]) \o ExpectedFrom(k + 1, n)

\* C13: ReplaceEmbeddedPipelines copies every byte outside the embedded segments
\* to the output in order and replaces each segment, from its marker start
\* through its marker end, by "(" + generated text + ")"; a text without start
\* marker is returned unchanged.
C13_HostTextVerbatim ==
    Replaced =>
        /\ ~out.thrown => out.output = ExpectedFrom(1, 0)
        /\ PiecesOf("seg") \cup PiecesOf("open") = {} =>
               /\ ~out.thrown
               /\ out.output = input.query
               /\ out.calls = <<>>

\* two segments were replaced, the host text between and around them kept
C13_Witness ==
    /\ Replaced
    /\ ~out.thrown
    /\ Cardinality(PiecesOf("seg")) = 2
    /\ Cardinality(PiecesOf("host")) = 3
    /\ out.output # input.query
    /\ Len(out.calls) = 4

\* the segments whose content holds no pipeline
EmptySegments ==
    {k \in PiecesOf("seg") :
        Blank(input.pieces[k].text) \/ ~Contains(input.pieces[k].text, <<"%", ">", "%">>)}

SegmentErrors ==
    {<<"E", "m", "b", "e", "d", "d", "e", "d", " ", "d", "p", "l", "y", "r", " ", "s", "e", "g", "m", "e", "n", "t", " ", "c", "a", "n", "n", "o", "t", " ", "b", "e", " ", "e", "m", "p", "t", "y">>,
     <<"E", "m", "b", "e", "d", "d", "e", "d", " ", "d", "p", "l", "y", "r", " ", "s", "e", "g", "m", "e", "n", "t", " ", "m", "u", "s", "t", " ", "c", "o", "n", "t", "a", "i", "n", " ", "a", " ", "%", ">", "%", " ", "p", "i", "p", "e", "l", "i", "n", "e">>}

\* C14: for a well-formed segment whose content, trimmed and stripped of
\* trailing semicolons, is empty or holds no chain operator,
\* ReplaceEmbeddedPipelines fails with a descriptive error, returns no output
\* and calls neither the validator nor the engine for that segment.
C14_EmptySegmentRejected ==
    Replaced /\ EmptySegments # {} =>
        /\ out.thrown
        /\ out.output = NULL
        /\ out.what \notin {<<>>, NULL}
        /\ \A k \in 1..Len(out.calls) : Contains(out.calls[k].text, <<"%", ">", "%">>)
        /\ (\A k \in EmptySegments : \A j \in PiecesOf("seg") : k <= j) =>
               out.what \in SegmentErrors /\ out.calls = <<>>
        /\ ~CallFailed(out.calls) => out.what \in SegmentErrors

\* the second segment holds no pipeline: the first was translated, the second
\* rejected without a call
C14_Witness ==
    /\ Replaced
    /\ EmptySegments # {}
    /\ out.thrown
    /\ out.what = <<"E", "m", "b", "e", "d", "d", "e", "d", " ", "d", "p", "l", "y", "r", " ", "s", "e", "g", "m", "e", "n", "t", " ", "m", "u", "s", "t", " ", "c", "o", "n", "t", "a", "i", "n", " ", "a", " ", "%", ">", "%", " ", "p", "i", "p", "e", "l", "i", "n", "e">>
    /\ Len(out.calls) = 2

\* a start marker of the text: "(" at offset i, "|" at offset j, white space only
\* between them
StartMarkerAt(text, i, j) ==
    /\ i < j
    /\ At(text, i) = "("
    /\ At(text, j) = "|"
    /\ \A m \in (i + 1)..(j - 1) : isspace(At(text, m))

\* an end marker of the text: "|" at offset i, ")" at offset j
EndMarkerAt(text, i, j) ==
    /\ i < j
    /\ At(text, i) = "|"
    /\ At(text, j) = ")"
    /\ \A m \in (i + 1)..(j - 1) : isspace(At(text, m))

Offsets(text) == 0..(Len(text) - 1)

HasStartMarker(text, from) ==
    \E i, j \in Offsets(text) : from <= i /\ StartMarkerAt(text, i, j)

HasEndMarker(text, from) ==
    \E i, j \in Offsets(text) : from <= i /\ EndMarkerAt(text, i, j)

UnterminatedError == <<"U", "n", "t", "e", "r", "m", "i", "n", "a", "t", "e", "d", " ", "e", "m", "b", "e", "d", "d", "e", "d", " ", "d", "p", "l", "y", "r", " ", "s", "e", "g", "m", "e", "n", "t", ":", " ", "e", "x", "p", "e", "c", "t", "e", "d", " ", "'", "|", ")", "'">>

\* C16: when a start marker is found and no end marker occurs at or after its
\* content start, ReplaceEmbeddedPipelines fails with the unterminated-embedding
\* error; the scanner functions only report absence.
C16_UnterminatedRejected ==
    Replaced =>
        LET start == FindEmbeddedStartMarker(input.query, 0)
            end == FindEmbeddedEndMarker(input.query, start.content_start)
        IN /\ start.found <=> HasStartMarker(input.query, 0)
           /\ start.found => (end.found <=> HasEndMarker(input.query, start.content_start))
           /\ start.found /\ ~HasEndMarker(input.query, start.content_start) =>
                  /\ out.thrown
                  /\ out.what = UnterminatedError
                  /\ out.output = NULL
                  /\ out.calls = <<>>
           /\ PiecesOf("open") # {} =>
                  /\ out.thrown
                  /\ out.output = NULL
                  /\ ~CallFailed(out.calls) => out.what = UnterminatedError

\* the first segment was translated, the start marker after it has no end marker
C16_Witness ==
    /\ Replaced
    /\ PiecesOf("open") # {}
    /\ PiecesOf("seg") # {}
    /\ Len(out.calls) = 2
    /\ out.thrown
    /\ out.what = UnterminatedError

(***************************************************************************)
(* Properties of the embedded path of dplyr_parse.                         *)
(***************************************************************************)
\* the statement has a marker, so dplyr_parse takes the embedded path when the
\* statement holds a chain operator
Marked == PiecesOf("seg") \cup PiecesOf("open") # {}

\* a chain operator stands in the host text
HostChain == \E k \in PiecesOf("host") : Contains(input.pieces[k].text, <<"%", ">", "%">>)

\* every segment of the statement was validated and translated
AllTranslated(calls) ==
    /\ PiecesOf("open") = {}
    /\ PiecesOf("seg") # {}
    /\ Len(calls) = 2 * Cardinality(PiecesOf("seg"))
    /\ ~CallFailed(calls)

UnprocessedError ==
    <<"U", "n", "p", "r", "o", "c", "e", "s", "s", "e", "d", " ", "%", ">", "%", " ", "p", "i", "p", "e", "l", "i", "n", "e", " ", "r", "e", "m", "a", "i", "n", "s", ".", " ", "W", "r", "a", "p", " ", "p", "i", "p", "e", "l", "i", "n", "e", "s", " ", "w", "i", "t", "h", " ", "(", "|", " ", ".", ".", ".", " ", "|", ")", " ", "o", "r", " ", "p", "r", "o", "v", "i", "d", "e", " ", "a", " ", "p", "u", "r", "e", " ", "p", "i", "p", "e", "l", "i", "n", "e", " ", "s", "t", "a", "t", "e", "m", "e", "n", "t", ".">>

\* C17: on the embedded path of dplyr_parse, a chain operator left outside the
\* markers in the text the replacer produced makes parse reject the query with
\* the "wrap pipelines or provide a pure pipeline statement" diagnostic, and no
\* accepted result of the embedded path carries text with a chain operator.
C17_NoChainLeft ==
    Parsed /\ Marked =>
        /\ HostChain /\ AllTranslated(out.calls) =>
               out.kind = "error" /\ out.error = UnprocessedError
        /\ out.kind = "parse_data" => ~Contains(out.sql, <<"%", ">", "%">>)

\* the segment was translated and the chain operator after it rejected
C17_Witness ==
    /\ Parsed
    /\ HostChain
    /\ AllTranslated(out.calls)
    /\ out.kind = "error"
    /\ out.error = UnprocessedError

\* every text generated for the statement is a SELECT statement without chain
\* operator
SelectGenerated ==
    \A k \in 1..Cardinality(PiecesOf("seg")) :
        /\ StartsWith(GeneratedText(k), <<"S", "E", "L", "E", "C", "T">>)
        /\ ~Contains(GeneratedText(k), <<"%", ">", "%">>)

\* C19 as stated: a host query whose embedded segments are all well-formed and
\* all transpile successfully is accepted by dplyr_parse whatever host text
\* surrounds the segments, also when the host statement does not begin with
\* SELECT or WITH and when the query is the segment alone.
C19_EmbeddedAnywhere ==
    Parsed /\ AllTranslated(out.calls) /\ ~HostChain /\ SelectGenerated =>
        out.kind = "parse_data"

(***************************************************************************)
(* The table-name hint.                                                    *)
(***************************************************************************)
HintBytes ==
    {"a", "b", "c", "d", "e", "f", "g", "h", "i", "j", "k", "l", "m", "n", "o", "p",
     "q", "r", "s", "t", "u", "v", "w", "x", "y", "z",
     "A", "B", "C", "D", "E", "F", "G", "H", "I", "J", "K", "L", "M", "N", "O", "P",
     "Q", "R", "S", "T", "U", "V", "W", "X", "Y", "Z",
     "0", "1", "2", "3", "4", "5", "6", "7", "8", "9", "_", "."}

\* the text before the first chain operator of a text that holds one
BeforeChain(text) ==
    LET first == CHOOSE i \in 1..Len(text) :
                     /\ Contains(SubSeq(text, i, i + 2), <<"%", ">", "%">>)
                     /\ \A j \in 1..(i - 1) : ~Contains(SubSeq(text, j, j + 2), <<"%", ">", "%">>)
    IN SubSeq(text, 1, first - 1)

\* the text before the first chain operator is, white space around it apart, a
\* non-empty run of letters, digits, "_" and "."
ValidHint(text) ==
    LET before == BeforeChain(text)
        inside == {k \in 1..Len(before) : ~isspace(before[k])}
    IN /\ inside # {}
       /\ \A k \in inside : before[k] \in HintBytes
       /\ \A k \in 1..Len(before) :
              (\E a, b \in inside : a < k /\ k < b) => k \in inside

TableNameError == <<"D", "P", "L", "Y", "R", " ", "p", "i", "p", "e", "l", "i", "n", "e", " ", "m", "u", "s", "t", " ", "s", "t", "a", "r", "t", " ", "w", "i", "t", "h", " ", "a", " ", "t", "a", "b", "l", "e", " ", "n", "a", "m", "e">>

\* C28: the table-name hint is the trimmed text before the first chain operator,
\* valid only if it is non-empty and made of letters, digits, "_" and "."; on
\* the whole-statement and embedded paths of dplyr.cpp a fragment with an empty
\* or invalid hint is rejected before the validator and the engine are called.
C28_HintBeforeCalls ==
    Parsed =>
        /\ \A k \in 1..Len(out.calls) : ValidHint(out.calls[k].text)
        /\ ~Marked /\ Contains(input.query, <<"%", ">", "%">>) =>
               IF ValidHint(input.query)
               THEN out.calls # <<>> /\ out.error # TableNameError
               ELSE out.calls = <<>> /\ out.kind = "error" /\ out.error = TableNameError
        /\ \A k \in PiecesOf("seg") :
               /\ PiecesOf("open") = {}
               /\ Contains(input.query, <<"%", ">", "%">>)
               /\ k = CHOOSE j \in PiecesOf("seg") : \A m \in PiecesOf("seg") : j <= m
               /\ Contains(input.pieces[k].text, <<"%", ">", "%">>)
               => IF ValidHint(input.pieces[k].text)
                  THEN out.calls # <<>>
                  ELSE /\ out.calls = <<>>
                       /\ out.kind = "error"
                       /\ out.error = TableNameError

\* the first segment was translated, the second has no table name and is
\* rejected without a call
C28_Witness ==
    /\ Parsed
    /\ out.kind = "error"
    /\ out.error = TableNameError
    /\ Len(out.calls) = 2
    /\ \E k \in PiecesOf("seg") : ~ValidHint(input.pieces[k].text)

(***************************************************************************)
(* The scanners on texts prefix + "(|" + inner + "|)" + suffix.            *)
(***************************************************************************)
\* the longest prefix and the longest inner text
MaxPrefix == 2

MaxInner == 3

\* the bytes the scanners tell apart
ScannerBytes == {"(", "|", ")", " "}

\* the texts of at most n bytes
RECURSIVE TextsUpTo(_)
TextsUpTo(n) ==
    IF n = 0 THEN {<<>>}
    ELSE LET shorter == TextsUpTo(n - 1)
         IN shorter \cup {Append(t, b) : t \in shorter, b \in ScannerBytes}

Suffixes == {<<>>, <<"|", ")">>, <<" ", "x", " ", "(", "|", " ", "b", " ", "|", ")">>}

InitScanner ==
    /\ input \in {[prefix |-> p, inner |-> i, suffix |-> s,
                   query |-> p \o <<"(", "|">> \o i \o <<"|", ")">> \o s] :
                     p \in TextsUpTo(MaxPrefix),
                     i \in {t \in TextsUpTo(MaxInner) : ~Contains(t, <<"|", ")">>)},
                     s \in Suffixes}
    /\ op = "none"
    /\ out = <<>>

\* FindEmbeddedStartMarker from offset 0, then FindEmbeddedEndMarker from the
\* content start, as ReplaceEmbeddedPipelines calls them for the first segment
ScanMarkers ==
    /\ op = "none"
    /\ op' = "ScanMarkers"
    /\ LET start == FindEmbeddedStartMarker(input.query, 0)
           end == FindEmbeddedEndMarker(input.query, start.content_start)
       IN out' = [start |-> start,
                  end |-> IF start.found THEN end
                          ELSE [found |-> FALSE, content_end |-> 0, marker_end |-> 0]]
    /\ UNCHANGED input

NextScanner == ScanMarkers

SpecScanner == InitScanner /\ [][NextScanner]_vars

Scanned == op = "ScanMarkers"

\* the scanners delimit exactly the inner text
DelimitsInner ==
    /\ out.start.found
    /\ out.end.found
    /\ out.start.marker_start = Len(input.prefix)
    /\ out.start.content_start = Len(input.prefix) + 2
    /\ out.end.content_end = Len(input.prefix) + 2 + Len(input.inner)
    /\ out.end.marker_end = out.end.content_end + 1
    /\ substr(input.query, out.start.content_start,
              out.end.content_end - out.start.content_start) = input.inner

\* C15 as stated: for every text prefix + "(|" + inner + "|)" + suffix where
\* inner contains no "|)", FindEmbeddedStartMarker from offset 0 followed by
\* FindEmbeddedEndMarker from the content start delimit exactly inner.
C15_RoundTrip == Scanned => DelimitsInner

\* C15 amended: the round trip holds when the prefix contains no start marker
\* ("(", optional white space, "|") and inner contains no end marker ("|",
\* optional white space, ")").
C15_RoundTripUnmarked ==
    Scanned /\ ~HasStartMarker(input.prefix, 0) /\ ~HasEndMarker(input.inner, 0) =>
        DelimitsInner

\* a prefix with a parenthesis and an inner text with ")" before "|"
C15_Witness ==
    /\ Scanned
    /\ Contains(input.prefix, <<"(">>)
    /\ input.inner = <<")", "|">>
    /\ ~HasStartMarker(input.prefix, 0)
    /\ DelimitsInner

\* the segment found from a cursor is well delimited and moves the cursor on
WellDelimited(query, cursor, start, end) ==
    /\ cursor <= start.marker_start
    /\ start.marker_start < start.content_start
    /\ start.content_start <= end.content_end
    /\ end.content_end < end.marker_end
    /\ end.marker_end < Len(query)
    /\ At(query, start.marker_start) = "("
    /\ At(query, start.content_start - 1) = "|"
    /\ At(query, end.content_end) = "|"
    /\ At(query, end.marker_end) = ")"
    /\ end.marker_end + 1 > cursor

\* C29: every embedded segment that ReplaceEmbeddedPipelines extracts satisfies
\* marker_start < content_start <= content_end < marker_end, with "(" at
\* marker_start, "|" at content_start - 1, "|" at content_end and ")" at
\* marker_end, and the cursor after the segment, marker_end + 1, is greater than
\* the cursor before it.
C29_SegmentOffsets ==
    Scanned =>
        /\ out.start.found /\ out.end.found =>
               WellDelimited(input.query, 0, out.start, out.end)
        /\ \A cursor \in Offsets(input.query) :
               LET start == FindEmbeddedStartMarker(input.query, cursor)
                   end == FindEmbeddedEndMarker(input.query, start.content_start)
               IN start.found /\ end.found =>
                      WellDelimited(input.query, cursor, start, end)

\* a segment with empty content, found after a first one
C29_Witness ==
    /\ Scanned
    /\ out.start.found
    /\ out.end.found
    /\ \E cursor \in Offsets(input.query) :
           LET start == FindEmbeddedStartMarker(input.query, cursor)
               end == FindEmbeddedEndMarker(input.query, start.content_start)
           IN /\ cursor = out.end.marker_end + 1
              /\ start.found
              /\ end.found
              /\ start.content_start = end.content_end

(***************************************************************************)
(* One pipeline text given to the three entry points of dplyr.cpp: as the  *)
(* whole statement, embedded in a host statement, and as the argument of   *)
(* the table function.  out holds the result of each entry point tried.    *)
(***************************************************************************)
\* pipeline texts: plain, with white space and semicolon around, rejected by the
\* validator, without table name, with an end marker in a string literal, with a
\* start marker between its parentheses, without chain operator
PipelineTexts ==
    {<<"t", " ", "%", ">", "%", " ", "f", "(", "x", ")">>, <<" ", "t", " ", "%", ">", "%", " ", "f", "(", "x", ")", " ", ";", " ">>, <<"t", " ", "%", ">", "%", " ", "s", "y", "s", "t", "e", "m", "(", "x", ")">>, <<"%", ">", "%", " ", "f", "(", "x", ")">>,
     <<"t", " ", "%", ">", "%", " ", "f", "(", "x", " ", "=", "=", " ", "'", "|", ")", "'", ")">>, <<"t", " ", "%", ">", "%", " ", "f", "(", " ", "|", "x", "|", " ", "y", ")">>, <<"t">>}

NotRun == Result("none", "none", <<>>, NULL, <<>>, <<>>)

InitEntry ==
    /\ input \in [query : PipelineTexts, env : {e \in Environments : e.host.parse = "ok"}]
    /\ op = "none"
    /\ out = [whole |-> NotRun, embedded |-> NotRun, table |-> NotRun]

\* the statement p
StatementWhole ==
    /\ out.whole = NotRun
    /\ op' = "dplyr_parse"
    /\ out' = [out EXCEPT !.whole = dplyr_parse(input.query, input.env)]
    /\ UNCHANGED input

\* the statement SELECT * FROM (| p |)
StatementEmbedded ==
    /\ out.embedded = NotRun
    /\ op' = "dplyr_parse"
    /\ out' = [out EXCEPT !.embedded =
                   dplyr_parse(<<"S", "E", "L", "E", "C", "T", " ", "*", " ", "F", "R", "O", "M", " ", "(", "|", " ">> \o input.query \o <<" ", "|", ")">>, input.env)]
    /\ UNCHANGED input

\* the statement SELECT * FROM dplyr('p'): the host gives the text p to the bind
StatementTable ==
    /\ out.table = NotRun
    /\ op' = "DplyrTableBind"
    /\ out' = [out EXCEPT !.table = DplyrTableBind(input.query, input.env)]
    /\ UNCHANGED input

NextEntry == StatementWhole \/ StatementEmbedded \/ StatementTable

SpecEntry == InitEntry /\ [][NextEntry]_vars

AllRun == out.whole # NotRun /\ out.embedded # NotRun /\ out.table # NotRun

\* the fragments handed to dplyr_compile, in order
RECURSIVE CompiledTexts(_)
CompiledTexts(calls) ==
    IF calls = <<>> THEN <<>>
    ELSE IF Head(calls).call = "dplyr_compile"
    THEN <<Head(calls).text>> \o CompiledTexts(Tail(calls))
    ELSE CompiledTexts(Tail(calls))

Accepted(result) == result.kind \in {"parse_data", "bind_data"}

\* C18 as stated: for every pipeline text p the three entry points of dplyr.cpp
\* (statement p, SELECT * FROM (| p |), SELECT * FROM dplyr('p')) hand the same
\* fragment text to the engine and are accepted or rejected together.
C18_EntryPointsAgree ==
    AllRun =>
        /\ CompiledTexts(out.whole.calls) = CompiledTexts(out.embedded.calls)
        /\ CompiledTexts(out.whole.calls) = CompiledTexts(out.table.calls)
        /\ Accepted(out.whole) <=> Accepted(out.embedded)
        /\ Accepted(out.whole) <=> Accepted(out.table)

(***************************************************************************)
(* The session state of dplyr_extension.cpp.  The client context keeps at  *)
(* most one DplyrState under the key "dplyr"; a session is [registered,    *)
(* parse_data], parse_data being the artifact the state holds or NULL.     *)
(* The host runs the queries of a session one after the other and calls    *)
(* QueryEnd of the registered state when a query ends.                     *)
(***************************************************************************)
\* the queries of one session
MaxQueries == 3

\* the parse data of the n-th query of the session
Artifact(n) == <<"s", "t", "a", "t", "e", "m", "e", "n", "t", " ">> \o to_string(n)

\* a DplyrState whose QueryEnd keeps the parse data
DplyrState_QueryEnd_Keeps(session) == session

\* DplyrState::QueryEnd
DplyrState_QueryEnd(session) ==
    IF session.registered THEN [session EXCEPT !.parse_data = NULL] ELSE session

\* the outcome of dplyr_plan or dplyr_bind: the session after it, what it threw,
\* the artifact it bound
Outcome(session, type, what, bound) ==
    [session |-> session, thrown |-> type # "none", type |-> type, what |-> what,
     bound |-> bound]

\* dplyr_plan of dplyr_extension.cpp
dplyr_plan_ext(session, parse_data) ==
    Outcome([registered |-> TRUE, parse_data |-> parse_data],
            "BinderException", <<"U", "s", "e", " ", "d", "p", "l", "y", "r", "_", "b", "i", "n", "d", " ", "i", "n", "s", "t", "e", "a", "d">>, NULL)

\* dplyr_bind; statement is "dplyr" for an extension statement of dplyr_parse,
\* host_bind what the binder of the host does with the stored statement
dplyr_bind(session, statement, host_bind) ==
    IF statement # "dplyr" THEN Outcome(session, "none", <<>>, NULL)
    ELSE IF ~session.registered
    THEN Outcome(session, "BinderException", <<"R", "e", "g", "i", "s", "t", "e", "r", "e", "d", " ", "D", "P", "L", "Y", "R", " ", "s", "t", "a", "t", "e", " ", "n", "o", "t", " ", "f", "o", "u", "n", "d">>, NULL)
    ELSE IF session.parse_data = NULL
    THEN Outcome(session, "BinderException", <<"I", "n", "v", "a", "l", "i", "d", " ", "D", "P", "L", "Y", "R", " ", "p", "a", "r", "s", "e", " ", "d", "a", "t", "a">>, NULL)
    ELSE IF host_bind = "error"
    THEN Outcome(session, "BinderException", HostError, NULL)
    ELSE Outcome(session, "none", <<>>, session.parse_data)

NoOutcome == Outcome([registered |-> FALSE, parse_data |-> NULL], "none", <<>>, NULL)

\* the statements of the queries and what the binder of the host does
InitSession ==
    /\ input \in [statements : [1..MaxQueries -> {"dplyr", "other"}],
                  host_bind : {"ok", "error"}]
    /\ op = "none"
    /\ out = [session |-> [registered |-> FALSE, parse_data |-> NULL],
              query |-> 0, running |-> FALSE, stored |-> FALSE, last_stored |-> 0,
              ended |-> "none", result |-> NoOutcome]

\* the host starts the next query of the session
QueryBegin ==
    /\ ~out.running
    /\ out.query < MaxQueries
    /\ op' = "QueryBegin"
    /\ out' = [out EXCEPT !.query = out.query + 1, !.running = TRUE, !.stored = FALSE,
                          !.result = NoOutcome]
    /\ UNCHANGED input

\* the host plans the extension statement of the running query
Plan ==
    /\ out.running
    /\ input.statements[out.query] = "dplyr"
    /\ op' = "dplyr_plan"
    /\ LET r == dplyr_plan_ext(out.session, Artifact(out.query))
       IN out' = [out EXCEPT !.session = r.session, !.stored = TRUE,
                             !.last_stored = out.query, !.result = r]
    /\ UNCHANGED input

\* the host asks the operator extension to bind the statement of the running
\* query
Bind ==
    /\ out.running
    /\ op' = "dplyr_bind"
    /\ LET r == dplyr_bind(out.session, input.statements[out.query], input.host_bind)
       IN out' = [out EXCEPT !.session = r.session, !.result = r]
    /\ UNCHANGED input

\* the running query ends and the host calls QueryEnd of the registered state
QueryEnd ==
    /\ out.running
    /\ \E how \in {"success", "failure", "cancellation"} :
           out' = [out EXCEPT !.session = DplyrState_QueryEnd(out.session),
                              !.running = FALSE, !.ended = how]
    /\ op' = "QueryEnd"
    /\ UNCHANGED input

NextSession == QueryBegin \/ Plan \/ Bind \/ QueryEnd

SpecSession == InitSession /\ [][NextSession]_vars

BindErrors == {<<"I", "n", "v", "a", "l", "i", "d", " ", "D", "P", "L", "Y", "R", " ", "p", "a", "r", "s", "e", " ", "d", "a", "t", "a">>, <<"R", "e", "g", "i", "s", "t", "e", "r", "e", "d", " ", "D", "P", "L", "Y", "R", " ", "s", "t", "a", "t", "e", " ", "n", "o", "t", " ", "f", "o", "u", "n", "d">>}

\* C20: the pipeline state of the session is cleared at the end of every query,
\* so a Bind for a later query that has not stored its own artifact never binds
\* the artifact an earlier query stored: it finds the artifact absent and fails
\* with a clean error.
C20_NoStaleArtifact ==
    /\ ~out.running => out.session.parse_data = NULL
    /\ op = "dplyr_bind" /\ out.result.bound # NULL =>
           out.stored /\ out.result.bound = Artifact(out.query)
    /\ op = "dplyr_bind" /\ ~out.stored /\ input.statements[out.query] = "dplyr" =>
           /\ out.result.thrown
           /\ out.result.type = "BinderException"
           /\ out.result.what \in BindErrors
           /\ out.result.bound = NULL

\* an earlier query stored its artifact and ended; the bind of a later query that
\* stored nothing finds the state without parse data
C20_Witness ==
    /\ op = "dplyr_bind"
    /\ out.last_stored # 0
    /\ out.last_stored < out.query
    /\ ~out.stored
    /\ out.session.registered
    /\ out.result.what = <<"I", "n", "v", "a", "l", "i", "d", " ", "D", "P", "L", "Y", "R", " ", "p", "a", "r", "s", "e", " ", "d", "a", "t", "a">>

\* C21 as stated: Bind removes the artifact it consumes: after a successful
\* dplyr_bind the session holds no artifact, so a second Bind in the same query
\* cannot consume the same artifact again.
C21_BindConsumes ==
    op = "dplyr_bind" /\ out.result.bound # NULL => out.session.parse_data = NULL


(***************************************************************************)
(* The warning-only pattern lists.                                         *)
(***************************************************************************)
Warned(p) ==
    \E k \in DOMAIN out.log : out.log[k].level = "WARNING" /\ out.log[k].context = p

Delimiters == {"'", "\""}
OtherDelimiter(d) == IF d = "'" THEN "\"" ELSE "'"

LiteralShapes == {"plain", "escaped", "other", "second", "open", "escaped_close"}

\* the n bytes between the delimiters
LiteralContent(d, n, shape) ==
    CASE shape = "escaped" -> <<"a", "\\", d>> \o Rep(<<"a">>, n - 3)
      [] shape = "other" -> <<OtherDelimiter(d)>> \o Rep(<<"a">>, n - 1)
      [] shape = "escaped_close" -> Rep(<<"a">>, n - 1) \o <<"\\">>
      [] OTHER -> Rep(<<"a">>, n)

\* whether an unescaped closing delimiter follows the n bytes
LiteralClosed(shape) == shape \notin {"open", "escaped_close"}

LiteralText(d, n, shape) ==
    <<"t", " ", "%", ">", "%", " ", "f", "i", "l", "t", "e", "r", "(", "x", " ", "=", "=", " ">>
        \o (IF shape = "second" THEN <<d, "b", d>> \o <<" ", "|", " ", "y", " ", "=", "=", " ">> ELSE <<>>)
        \o <<d>> \o LiteralContent(d, n, shape)
        \o (IF shape = "open" THEN <<>> ELSE <<d>>) \o <<")">>

LiteralInputs ==
    {[family |-> "literal", delimiter |-> d, n |-> n, shape |-> shape,
      closed |-> LiteralClosed(shape), text |-> LiteralText(d, n, shape)] :
        d \in Delimiters, n \in Near(MAX_STRING_LENGTH), shape \in LiteralShapes}

InitLiteral == input \in LiteralInputs /\ op = "none" /\ out = <<>>

ValidateResourcePatterns ==
    /\ op = "none"
    /\ op' = "validate_resource_patterns"
    /\ out' = validate_resource_patterns(input.text)
    /\ UNCHANGED input

SpecLiteral == InitLiteral /\ [][ValidateResourcePatterns]_vars

\* C27 as stated: a literal runs from its opening delimiter to the next occurrence
\* of the same delimiter that is not immediately preceded by a backslash, and the
\* fragment is rejected exactly when such a literal is longer than 10000 bytes: a
\* literal of exactly 10000 bytes is accepted and one of 10001 bytes is rejected.
C27_LiteralLimit ==
    op = "validate_resource_patterns" =>
        (out.thrown <=> input.closed /\ input.n > 10000)

(***************************************************************************)
(* The strings dplyr_compile allocates.                                    *)
(***************************************************************************)
\* what dplyr_compile promises: the generated text on success, the message on
\* failure, never both
KeepsContract(engine) ==
    IF engine.result = 0
    THEN engine.sql_output # NULL /\ engine.error_output = NULL
    ELSE engine.sql_output = NULL /\ engine.error_output # NULL

Allocated(engine) ==
    {"sql_output" : x \in {engine.sql_output} \ {NULL}}
        \cup {"error_output" : x \in {engine.error_output} \ {NULL}}

\* C30 as stated: every string that dplyr_compile allocates for a call (the
\* generated text or the error message) is released with dplyr_free_string exactly
\* once before TranspileDplyrCode returns or raises an error, on every path:
\* success, engine failure, empty output and timeout.
C30_EveryStringFreed ==
    op = "TranspileDplyrCode" /\ KeepsContract(input.engine) =>
        /\ {out.freed[k] : k \in DOMAIN out.freed} = Allocated(input.engine)
        /\ Len(out.freed) = Cardinality(Allocated(input.engine))

(***************************************************************************)
(* What the bind functions run on the host.                                *)
(***************************************************************************)
\* a generated text wrapped so that the host returns no row
IsProbe(q) ==
    StartsWith(q, <<"S", "E", "L", "E", "C", "T", " ", "*", " ", "F", "R", "O", "M", " ", "(">>) /\ EndsWith(q, <<")", " ", "A", "S", " ", "d", "p", "l", "y", "r", "_", "s", "u", "b", "q", "u", "e", "r", "y", " ", "L", "I", "M", "I", "T", " ", "0">>)

\* C24 as stated: every bind function only runs a zero-row probe (the generated
\* text wrapped in a LIMIT 0 query) and never runs the generated query in full,
\* and a probe that fails is reported as an error of the bind.
C24_BindOnlyProbes ==
    op \in {"DplyrTableBind", "DplyrTableBind_ext"} =>
        /\ \A k \in DOMAIN out.host_queries : IsProbe(out.host_queries[k])
        /\ out.host_queries # <<>> /\ input.env.host.queries[1] = "error" =>
               out.kind = "thrown"

(***************************************************************************)
(* The statement path of dplyr.cpp after the parse: dplyr_plan, then the   *)
(* table function dplyr_query with DplyrSqlTableBind, DplyrTableInit and   *)
(* DplyrTableFunction.  The host answers the probe of the bind and the     *)
(* query of the init, and hands out its result in batches.                 *)
(***************************************************************************)
MaxBatches == 2       \* batches of a host result
MaxBatchRows == 2     \* rows of one batch
VectorSize == 2       \* rows one scan call can output
MaxIdleScans == 2     \* scan calls made after the scan ended

MaxThreads == 1

RECURSIVE SumTo(_, _)
SumTo(sizes, k) == IF k = 0 THEN 0 ELSE SumTo(sizes, k - 1) + sizes[k]

\* batches of the given sizes, the rows numbered in the order the host returns them
Batches(sizes) ==
    [k \in 1..Len(sizes) |-> [j \in 1..sizes[k] |-> SumTo(sizes, k - 1) + j]]

HostResults ==
    {[probe |-> p, run |-> r, batches |-> Batches(sizes), total |-> SumTo(sizes, Len(sizes)),
      end |-> e] :
        p \in {"ok", "error"}, r \in {"ok", "error"}, e \in {"null", "empty"},
        sizes \in UNION {[1..m -> 1..MaxBatchRows] : m \in 0..MaxBatches}}

\* the text of the parse data handed to dplyr_plan (NULL: no parse data)
PlannedTexts == {NULL, <<>>, <<" ", ";", " ">>, <<"S", "E", "L", "E", "C", "T", " ", "x", " ", "F", "R", "O", "M", " ", "t">>, <<"S", "E", "L", "E", "C", "T", " ", "x", " ", "F", "R", "O", "M", " ", "t", " ", ";">>}

ExecThrow(type, what, host_queries) ==
    [thrown |-> TRUE, type |-> type, what |-> what, host_queries |-> host_queries]

dplyr_plan(parse_data) ==
    IF parse_data = NULL
    THEN [thrown |-> TRUE, type |-> "InternalException",
          what |-> <<"D", "P", "L", "Y", "R", " ", "p", "l", "a", "n", " ", "c", "a", "l", "l", "e", "d", " ", "w", "i", "t", "h", "o", "u", "t", " ", "p", "a", "r", "s", "e", " ", "d", "a", "t", "a">>, function |-> NULL,
          parameters |-> <<>>]
    ELSE [thrown |-> FALSE, type |-> "none", what |-> <<>>, function |-> <<"d", "p", "l", "y", "r", "_", "q", "u", "e", "r", "y">>,
          parameters |-> <<parse_data>>]

\* the outcome carries the bind data (sql) and the texts run on the host
DplyrSqlTableBind(inputs, host) ==
    IF inputs = <<>> \/ inputs[1] = NULL
    THEN ExecThrow("InvalidInputException",
                   <<"d", "p", "l", "y", "r", "_", "q", "u", "e", "r", "y", "(", ")", " ", "r", "e", "q", "u", "i", "r", "e", "s", " ", "a", " ", "n", "o", "n", "-", "n", "u", "l", "l", " ", "S", "Q", "L", " ", "s", "t", "r", "i", "n", "g">>, <<>>)
            @@ [sql |-> NULL]
    ELSE With(StripTrailingSemicolon(inputs[1]),
              LAMBDA sql :
                IF sql = <<>>
                THEN ExecThrow("InvalidInputException",
                               <<"d", "p", "l", "y", "r", "_", "q", "u", "e", "r", "y", "(", ")", " ", "r", "e", "q", "u", "i", "r", "e", "s", " ", "a", " ", "n", "o", "n", "-", "e", "m", "p", "t", "y", " ", "S", "Q", "L", " ", "s", "t", "r", "i", "n", "g">>, <<>>)
                        @@ [sql |-> NULL]
                ELSE With(<<"S", "E", "L", "E", "C", "T", " ", "*", " ", "F", "R", "O", "M", " ", "(">> \o sql \o <<")", " ", "A", "S", " ", "d", "p", "l", "y", "r", "_", "s", "u", "b", "q", "u", "e", "r", "y", " ", "L", "I", "M", "I", "T", " ", "0">>,
                          LAMBDA schema_query :
                            IF host.probe = "error"
                            THEN ExecThrow("InvalidInputException",
                                           <<"d", "p", "l", "y", "r", "_", "q", "u", "e", "r", "y", "(", ")", " ", "s", "c", "h", "e", "m", "a", " ", "i", "n", "f", "e", "r", "e", "n", "c", "e", " ", "f", "a", "i", "l", "e", "d", ":", " ">>
                                               \o HostError,
                                           <<schema_query>>)
                                    @@ [sql |-> NULL]
                            ELSE [thrown |-> FALSE, type |-> "none", what |-> <<>>,
                                  host_queries |-> <<schema_query>>, sql |-> sql]))

\* what the calls of Fetch return: each batch, then a null chunk or an empty one
FetchReplies(host) ==
    [k \in 1..Len(host.batches) |-> [null |-> FALSE, rows |-> host.batches[k]]]
        \o <<[null |-> host.end = "null", rows |-> <<>>]>>

\* a plausible slip: one Fetch instead of the loop
DplyrTableInit_OneFetch(data_sql, host) ==
    IF host.run = "error"
    THEN ExecThrow("InvalidInputException", <<"d", "p", "l", "y", "r", "(", ")", " ", "f", "a", "i", "l", "e", "d", " ", "t", "o", " ", "e", "x", "e", "c", "u", "t", "e", ":", " ">> \o HostError,
                   <<data_sql>>)
            @@ [collection |-> <<>>]
    ELSE [thrown |-> FALSE, type |-> "none", what |-> <<>>, host_queries |-> <<data_sql>>,
          collection |-> FetchReplies(host)[1].rows]

DplyrTableInit(data_sql, host) ==
    IF host.run = "error"
    THEN ExecThrow("InvalidInputException", <<"d", "p", "l", "y", "r", "(", ")", " ", "f", "a", "i", "l", "e", "d", " ", "t", "o", " ", "e", "x", "e", "c", "u", "t", "e", ":", " ">> \o HostError,
                   <<data_sql>>)
            @@ [collection |-> <<>>]
    ELSE LET replies == FetchReplies(host)
             Body(st, k) ==
                IF replies[k].null \/ Len(replies[k].rows) = 0
                THEN [st EXCEPT !.stop = TRUE]
                ELSE [st EXCEPT !.collection = @ \o replies[k].rows]
         IN [thrown |-> FALSE, type |-> "none", what |-> <<>>,
             host_queries |-> <<data_sql>>,
             collection |-> Loop(Body, 1, Len(replies),
                                 [stop |-> FALSE, collection |-> <<>>]).collection]

\* ColumnDataCollection::Scan from the scan state: the next rows, at most
\* VectorSize of them, or no more rows
CollectionScan(collection, scan_state) ==
    LET n == IF Len(collection) - scan_state < VectorSize
             THEN Len(collection) - scan_state ELSE VectorSize
    IN [more |-> n > 0, scan_state |-> scan_state + n,
        rows |-> SubSeq(collection, scan_state + 1, scan_state + n)]

\* a plausible slip: the output chunk left as it was when the scan has ended
DplyrTableFunction_StaleOutput(collection, scan_state, output) ==
    LET s == CollectionScan(collection, scan_state)
    IN [scan_state |-> s.scan_state, output |-> IF s.more THEN s.rows ELSE output]

DplyrTableFunction(collection, scan_state, output) ==
    LET s == CollectionScan(collection, scan_state)
    IN [scan_state |-> s.scan_state, output |-> IF s.more THEN s.rows ELSE <<>>]

InitExecute ==
    /\ input \in [parse_data : PlannedTexts, host : HostResults]
    /\ op = "none"
    /\ out = [stage |-> "Parsed", from |-> "Parsed", type |-> "none", what |-> <<>>,
              parameters |-> <<>>, sql |-> NULL, host_queries |-> <<>>,
              collection |-> <<>>, scan_state |-> 0, output |-> <<>>, outputs |-> <<>>,
              threads |-> {}]

Reject(r) ==
    [out EXCEPT !.stage = "Rejected", !.from = out.stage, !.type = r.type, !.what = r.what]

PlanQuery ==
    /\ out.stage = "Parsed"
    /\ op' = "dplyr_plan"
    /\ LET r == dplyr_plan(input.parse_data)
       IN out' = IF r.thrown THEN Reject(r)
                 ELSE [out EXCEPT !.stage = "Planned", !.from = out.stage,
                                  !.parameters = r.parameters]
    /\ UNCHANGED input

BindQuery ==
    /\ out.stage = "Planned"
    /\ op' = "DplyrSqlTableBind"
    /\ LET r == DplyrSqlTableBind(out.parameters, input.host)
       IN out' = IF r.thrown
                 THEN [Reject(r) EXCEPT !.host_queries = out.host_queries \o r.host_queries]
                 ELSE [out EXCEPT !.stage = "Bound", !.from = out.stage, !.sql = r.sql,
                                  !.host_queries = @ \o r.host_queries]
    /\ UNCHANGED input

InitQuery ==
    /\ out.stage = "Bound"
    /\ op' = "DplyrTableInit"
    /\ LET r == DplyrTableInit(out.sql, input.host)
       IN out' = IF r.thrown
                 THEN [Reject(r) EXCEPT !.host_queries = out.host_queries \o r.host_queries]
                 ELSE [out EXCEPT !.stage = "Executing", !.from = out.stage,
                                  !.collection = r.collection, !.scan_state = 0,
                                  !.host_queries = @ \o r.host_queries]
    /\ UNCHANGED input

\* one call of the table function by one of the threads the state allows; the
\* host stops calling some time after a call that output no row
Idle == Cardinality({k \in DOMAIN out.outputs : out.outputs[k] = <<>>})

ScanQuery ==
    /\ out.stage \in {"Executing", "Done"}
    /\ Idle <= MaxIdleScans
    /\ Len(out.outputs) <= Len(out.collection) + MaxIdleScans
    /\ op' = "DplyrTableFunction"
    /\ \E thread \in 1..MaxThreads :
          LET r == DplyrTableFunction(out.collection, out.scan_state, out.output)
          IN out' = [out EXCEPT !.stage = IF r.output = <<>> THEN "Done" ELSE out.stage,
                                !.from = out.stage,
                                !.scan_state = r.scan_state, !.output = r.output,
                                !.outputs = Append(@, r.output),
                                !.threads = @ \cup {thread}]
    /\ UNCHANGED input

NextExecute == PlanQuery \/ BindQuery \/ InitQuery \/ ScanQuery

SpecExecute == InitExecute /\ [][NextExecute]_vars

\* the host calls the table function again as long as the last call output rows
SpecExecuteFair == SpecExecute /\ WF_vars(ScanQuery)

(***************************************************************************)
(* Properties of the execute stage.                                        *)
(***************************************************************************)
\* C22 as stated: a query is rejected only from Unrecognized, Parsed or Planned;
\* once the bind has succeeded the execute stage cannot end in an error.
C22_RejectedBeforeBound ==
    out.stage = "Rejected" => out.from \in {"Unrecognized", "Parsed", "Planned"}

\* C22: a query is rejected only from Unrecognized, Parsed, Planned or Bound
\* (DplyrTableInit raises the error of the host when the generated query fails);
\* once DplyrTableInit has succeeded the scan cannot end in an error, and the
\* query reaches Done.
C22_DoneOnceExecuting ==
    /\ [](out.stage = "Rejected" => out.from \in {"Parsed", "Planned", "Bound"})
    /\ (out.stage = "Executing" ~> out.stage = "Done")

\* a query whose result has rows went through the scan and ended
C22_Witness ==
    /\ out.stage = "Done"
    /\ out.from = "Executing"
    /\ Len(out.collection) > VectorSize

Delivered == Concat(out.outputs)

\* C25: DplyrTableInit appends every batch the host returns until the host
\* reports no more data; the scan delivers every materialized row exactly once,
\* in order, through one forward cursor used by at most one thread; after the
\* last row the scan outputs zero rows, and so does every later scan call.
C25_EveryRowOnceInOrder ==
    out.stage \in {"Executing", "Done"} =>
        /\ out.collection = [k \in 1..input.host.total |-> k]
        /\ Delivered = [k \in 1..Len(Delivered) |-> k]
        /\ Len(Delivered) = out.scan_state
        /\ Cardinality(out.threads) <= 1
        /\ \A k \in DOMAIN out.outputs :
              out.outputs[k] = <<>> <=> Len(Concat(SubSeq(out.outputs, 1, k - 1))) = input.host.total
        /\ out.stage = "Done" <=> out.outputs # <<>> /\ out.outputs[Len(out.outputs)] = <<>>

\* a result of two batches was scanned to its end and the scan was called again
C25_Witness ==
    /\ out.stage = "Done"
    /\ Len(input.host.batches) = 2
    /\ input.host.total > VectorSize
    /\ Len(Delivered) = input.host.total
    /\ Idle >= 2

(***************************************************************************)
(* Queries on independent sessions.  Each session is a ClientContext with  *)
(* its own registered_state; the host interleaves the calls it makes for   *)
(* the sessions in any order.                                              *)
(***************************************************************************)
SessionQueries == 2   \* queries each session runs

Contexts == {"a", "b"}

ContextNumber(context) == IF context = "a" THEN 1 ELSE 2

\* the parse data of the n-th query of a session
ArtifactOf(context, n) == Artifact(10 * ContextNumber(context) + n)

\* a plausible slip: one registry for the whole process
registered_state_Shared(context) == "a"

\* context.registered_state: the registry a call made for a context works on
registered_state(context) == context

InitConcurrent ==
    /\ input \in [statements : [Contexts -> [1..SessionQueries -> {"dplyr", "other"}]],
                  host_bind : {"ok", "error"}]
    /\ op = "none"
    /\ out = [store |-> [c \in Contexts |-> [registered |-> FALSE, parse_data |-> NULL]],
              ctx |-> [c \in Contexts |->
                          [query |-> 0, running |-> FALSE, stored |-> FALSE,
                           last |-> "none", result |-> NoOutcome]],
              actor |-> "none"]

\* the host starts the next query of a session
ConcurrentBegin(c) ==
    /\ ~out.ctx[c].running
    /\ out.ctx[c].query < SessionQueries
    /\ op' = "QueryBegin"
    /\ out' = [out EXCEPT !.ctx[c] = [query |-> out.ctx[c].query + 1, running |-> TRUE,
                                       stored |-> FALSE, last |-> "QueryBegin",
                                       result |-> NoOutcome],
                          !.actor = c]
    /\ UNCHANGED input

\* dplyr_plan for the running query of a session
ConcurrentPlan(c) ==
    /\ out.ctx[c].running
    /\ input.statements[c][out.ctx[c].query] = "dplyr"
    /\ op' = "dplyr_plan"
    /\ LET r == dplyr_plan_ext(out.store[registered_state(c)],
                               ArtifactOf(c, out.ctx[c].query))
       IN out' = [out EXCEPT !.store[registered_state(c)] = r.session,
                             !.ctx[c].stored = TRUE, !.ctx[c].last = "dplyr_plan",
                             !.ctx[c].result = r, !.actor = c]
    /\ UNCHANGED input

\* dplyr_bind for the running query of a session
ConcurrentBind(c) ==
    /\ out.ctx[c].running
    /\ op' = "dplyr_bind"
    /\ LET r == dplyr_bind(out.store[registered_state(c)],
                           input.statements[c][out.ctx[c].query], input.host_bind)
       IN out' = [out EXCEPT !.store[registered_state(c)] = r.session,
                             !.ctx[c].last = "dplyr_bind", !.ctx[c].result = r,
                             !.actor = c]
    /\ UNCHANGED input

\* the running query of a session ends: QueryEnd of the states of its registry
ConcurrentEnd(c) ==
    /\ out.ctx[c].running
    /\ op' = "QueryEnd"
    /\ out' = [out EXCEPT !.store[registered_state(c)] =
                              DplyrState_QueryEnd(out.store[registered_state(c)]),
                          !.ctx[c].running = FALSE, !.ctx[c].last = "QueryEnd",
                          !.actor = c]
    /\ UNCHANGED input

NextConcurrent ==
    \E c \in Contexts :
        ConcurrentBegin(c) \/ ConcurrentPlan(c) \/ ConcurrentBind(c) \/ ConcurrentEnd(c)

SpecConcurrent == InitConcurrent /\ [][NextConcurrent]_vars

\* what the last call made for session c returns when the session runs alone
AloneAsExpected(c) ==
    LET s == out.ctx[c]
        own == ArtifactOf(c, s.query)
    IN /\ s.last = "dplyr_plan" =>
            s.result.thrown /\ s.result.what = <<"U", "s", "e", " ", "d", "p", "l", "y", "r", "_", "b", "i", "n", "d", " ", "i", "n", "s", "t", "e", "a", "d">>
       /\ s.last = "dplyr_bind" /\ input.statements[c][s.query] = "other" =>
            ~s.result.thrown /\ s.result.bound = NULL
       /\ s.last = "dplyr_bind" /\ input.statements[c][s.query] = "dplyr" =>
            IF ~s.stored
            THEN s.result.thrown /\ s.result.what \in BindErrors /\ s.result.bound = NULL
            ELSE IF input.host_bind = "ok"
            THEN ~s.result.thrown /\ s.result.bound = own
            ELSE s.result.thrown /\ s.result.what = HostError /\ s.result.bound = NULL

\* C23: under any interleaving of queries on independent sessions, the pipeline
\* state stored by one session is never read, replaced or cleared by another
\* session, and the outcome of each call equals the outcome it has when the
\* session runs alone.
C23_SessionsIndependent ==
    \A c \in Contexts :
        /\ AloneAsExpected(c)
        /\ out.ctx[c].running /\ out.ctx[c].stored =>
               out.store[c].parse_data = ArtifactOf(c, out.ctx[c].query)
        /\ ~out.ctx[c].running => out.store[c].parse_data = NULL

\* both sessions have stored their pipeline state and session a binds its own
\* while the query of session b is still running
C23_Witness ==
    /\ op = "dplyr_bind"
    /\ out.actor = "a"
    /\ out.ctx["a"].stored /\ out.ctx["b"].stored
    /\ out.ctx["a"].running /\ out.ctx["b"].running
    /\ out.ctx["b"].last = "dplyr_plan"
    /\ out.ctx["a"].result.bound = ArtifactOf("a", out.ctx["a"].query)
====
